---- MODULE Spec2Model ----
(***************************************************************************)
(* Model of the copy-trade multiplier bot of                               *)
(* src/websocket_orders_positions.py: the ingestion thread (on_message,    *)
(* handle_usertrade, handle_order_update), the order worker thread         *)
(* (order_worker, place_order_topup), the shared module-level state        *)
(* (dedup caches, cap ledger, order queue) and shutdown.                   *)
(*                                                                         *)
(* Representation.                                                         *)
(*  - Optional strings (symbol, side, price, ids): "" stands for both None *)
(*    and the empty string; the code only ever tests them for truthiness.  *)
(*  - Tags (client_order_id, client_id, text) are sequences of one-letter  *)
(*    strings so that the prefix test of _looks_like_ours is computed;     *)
(*    <<>> stands for None / "".                                           *)
(*  - Optional integers are <<>> (absent, unparsable) or <<n>>.            *)
(*  - USER_MULTIPLIER is a float in the code; here it is the numerator of  *)
(*    a fraction over MultDen (multiples of 1/4 are exact in binary        *)
(*    floating point, so the arithmetic below is the float arithmetic).    *)
(*  - An event carries the first key of each of the code's alternative     *)
(*    key chains (symbol, side, size, id, ...); product_id and audit_id    *)
(*    only reach the request body and the log and are left out.            *)
(*                                                                         *)
(* Steps.  A step of a thread ends where the thread calls something that   *)
(* waits, takes a lock or writes: order_q.put and order_q.get, ws.send,    *)
(* log_action (and log_skip when VERBOSE_DECISIONS is set, which is the    *)
(* only case in which it does anything), Event.set, rest_post, the backoff *)
(* sleep, ws.run_forever.  The other thread, and the signal handler, run   *)
(* between two steps.  What a thread does between two such calls (a        *)
(* handler reading the dedup stores and the ledger and writing the stores) *)
(* is one step.  log_event, whose records no property reads, ends no step. *)
(* ws_sent records the calls of ws.send, whether or not the socket was     *)
(* still open when they were made; a session sends frames without limit    *)
(* (four for every authentication success), and ws_sent keeps the first    *)
(* MaxSent of them.                                                        *)
(***************************************************************************)
EXTENDS Integers, Sequences, FiniteSets, TLC

VARIABLES
    \* configuration, read from the environment at import time
    USER_MULTIPLIER, ALLOW_SYMBOLS, ORDER_TYPE, TIF,
    LIMIT_IOC_FALLBACK_MARKET, DRY_RUN, VERBOSE_DECISIONS, MAX_TOPUP_PER_TRADE,
    BACKOFF_BASE, BACKOFF_MAX, BACKOFF_JITTER, HTTP_RETRIES,
    \* module-level state
    seen_fill_ids, seen_trade_ids, order_fill_cum, session_topup_used,
    order_q, STOP_EVENT, SHUTDOWN_ONCE, CURRENT_WS,
    \* the main thread in run_ws_forever, in the socket callbacks it runs and
    \* in the end of main: where it stands; the job of the order_q.put it has
    \* reached; the events of the frame that come after the one being
    \* handled; the record a handler is about to write; and the frames the
    \* callback has still to send
    ws_pc, put_job, put_rest, log_next, ws_out,
    \* the calls of shutdown that are running on the main thread, by the
    \* signal handler, by main or at exit, the innermost last (a signal
    \* handler runs on top of whatever it interrupted, another handler
    \* included): where each one stands, the lock held by the code it
    \* interrupted ("queue": the mutex of order_q, inside order_q.put;
    \* "once": the lock of SHUTDOWN_ONCE, inside SHUTDOWN_ONCE.set(); ""
    \* for none), and whether it stands for more calls than one (see "The
    \* calls of shutdown on the main thread" below)
    shutdown_pc,
    \* run_ws_forever: its local backoff; whether LAST_CONN_OK_AT >=
    \* session_start holds for the session that is current (the clock is
    \* monotonic, so this is whether on_message has recorded health since
    \* the session began); and, while run_ws_forever sleeps before the next
    \* session, the number of 0.1 s naps of that sleep, int(wait * 10) (0
    \* otherwise)
    backoff, had_health, wait,
    \* the frames sent on the socket of the current session, in order: the
    \* first MaxSent of them
    ws_sent,
    \* worker thread (order_worker / place_order_topup)
    worker_pc, job, sent, status,
    \* reason of the last record the main thread (run_ws_forever, the socket
    \* callbacks it runs, shutdown) wrote with log_skip (when
    \* VERBOSE_DECISIONS) or log_action
    log_last,
    \* the exchange: cumulative filled size and state of the external order,
    \* frames on the socket not yet received, and the total size of the
    \* top-up jobs enqueued for frames the exchange sent about that order
    ext_cum, ext_state, ut_stream, wire, enq_total,
    \* a call of compute_topup_size, or of rest_post: its argument (for
    \* rest_post, what the successive HTTP attempts meet) and its result
    calc_in, calc_out

cfgvars == <<USER_MULTIPLIER, ALLOW_SYMBOLS, ORDER_TYPE, TIF,
             LIMIT_IOC_FALLBACK_MARKET, DRY_RUN, VERBOSE_DECISIONS,
             MAX_TOPUP_PER_TRADE, BACKOFF_BASE, BACKOFF_MAX, BACKOFF_JITTER,
             HTTP_RETRIES>>
connvars == <<backoff, had_health, wait, ws_sent>>
dedupvars == <<seen_fill_ids, seen_trade_ids, order_fill_cum>>
workervars == <<worker_pc, job, sent, status>>
envvars == <<ext_cum, ext_state, ut_stream, wire, enq_total, calc_in, calc_out>>
vars == <<cfgvars, connvars, dedupvars, session_topup_used, order_q, STOP_EVENT,
          SHUTDOWN_ONCE, shutdown_pc, CURRENT_WS, ws_pc, put_job,
          put_rest, log_next, ws_out, workervars, log_last, envvars>>

----------------------------------------------------------------------------
(* Program constants (values scaled down; all but QueueMax come from the   *)
(* environment).                                                           *)

MultDen == 4
JitterDen == 10
MAX_TOPUP_PER_SYMBOL == 4
FILL_ID_MAX == 2
TRADE_ID_MAX == 2
QueueMax == 2
SELF_TAG_PREFIX == <<"B", "_">>
our_client_prefix == SELF_TAG_PREFIX

(* Bounds of the model. *)
MaxQty == 2          \* largest size / filled_size an inbound event carries
OrderSize == 2       \* size of the external order the exchange fills
MaxMult == 12        \* largest multiplier of the sizing specification (3.0)
MaxFill == 100       \* largest |filled_qty| of the sizing specification
MaxBackoffBase == 2  \* largest BACKOFF_BASE of the connection specification
MaxBackoffMax == 5   \* largest BACKOFF_MAX of the connection specification
MaxJitter == 2       \* largest BACKOFF_JITTER (over JitterDen)
MaxRetries == 3      \* largest HTTP_RETRIES of the rest_post specification
MaxSent == 9         \* frames of a session that ws_sent keeps (the first ones)
MaxIds == 3          \* distinct fill and trade identifiers of the dedup specification
MaxSignals == 2      \* calls of shutdown, interrupted by one another, that are kept one by one

----------------------------------------------------------------------------
(* The calls of shutdown on the main thread.                               *)
(*                                                                         *)
(* Signal handlers interrupt one another without limit, so the calls of    *)
(* shutdown that are running at one time are without limit too.  The model *)
(* keeps those that still have something to do:                            *)
(*  - a call that finds SHUTDOWN_ONCE set returns at line 608 and has      *)
(*    done nothing.  A handler that runs while the flag is set, or while   *)
(*    the lock of the flag is held by code that is interrupted (no call    *)
(*    gets past SHUTDOWN_ONCE.set() any more), writes its record and is    *)
(*    not kept.  A call that is interrupted before its test of the flag    *)
(*    goes on when the handler that interrupted it has returned, and       *)
(*    finds the flag set by then: the call of that handler takes its       *)
(*    place, with the lock it holds.                                       *)
(*  - a call that is interrupted between its test of the flag (line 607)   *)
(*    and SHUTDOWN_ONCE.set() (line 609) goes on with line 609 and the     *)
(*    rest of shutdown when the handler has returned.  Up to MaxSignals    *)
(*    calls are kept one by one; of the calls interrupted at that place    *)
(*    beyond them the number is not kept: the field more of a call says    *)
(*    that one or more such calls stand on top of it, and when the call    *)
(*    above them returns, the one that goes on is the last of them or is   *)
(*    not.                                                                 *)

\* a call of shutdown that stands at p, made by code that holds the lock l
Frame(p, l) == [pc |-> p, held |-> l, more |-> FALSE]

\* the innermost call of shutdown stands at p
ShutdownAt(p) ==
    shutdown_pc # <<>> /\ shutdown_pc[Len(shutdown_pc)].pc = p

\* the innermost call of shutdown moves on to p
Goto(p) == [shutdown_pc EXCEPT ![Len(shutdown_pc)].pc = p]

\* the innermost call of shutdown returns: the call it interrupted is
\* innermost again; when that one stands for more calls than one, the
\* innermost of them goes on at SHUTDOWN_ONCE.set()
Returned ==
    LET n == Len(shutdown_pc)
    IN IF n > 1 /\ shutdown_pc[n - 1].more
       THEN { Append([SubSeq(shutdown_pc, 1, n - 1) EXCEPT ![n - 1].more = m],
                     Frame("set", "")) : m \in BOOLEAN }
       ELSE { SubSeq(shutdown_pc, 1, n - 1) }

\* shutdown is called by code that holds the lock l ("" for none); when
\* MaxSignals calls are running, the innermost of them, interrupted between
\* lines 607 and 609, is from now on stood for by the call it interrupted
Called(l) ==
    IF Len(shutdown_pc) < MaxSignals
    THEN Append(shutdown_pc, Frame("enter", l))
    ELSE Append([SubSeq(shutdown_pc, 1, MaxSignals - 1)
                    EXCEPT ![MaxSignals - 1].more = TRUE],
                Frame("enter", l))

\* code that a signal handler interrupted holds the lock l; it keeps it
\* until the handler has returned
Holds(l) == \E i \in 1..Len(shutdown_pc) : shutdown_pc[i].held = l

\* the main thread was interrupted inside order_q.put, holding the mutex of
\* the queue
mutex_held == Holds("queue")

----------------------------------------------------------------------------
(* Small helpers. *)

Min(a, b) == IF a <= b THEN a ELSE b
Max(a, b) == IF a >= b THEN a ELSE b
Range(s) == {s[i] : i \in 1..Len(s)}

\* s[:n] of Python
Prefix(s, n) == SubSeq(s, 1, Min(n, Len(s)))

\* a or b or c, for tags
FirstTruthy(ts) ==
    IF \E i \in 1..Len(ts) : ts[i] # <<>>
    THEN ts[CHOOSE i \in 1..Len(ts) :
              ts[i] # <<>> /\ \A j \in 1..(i-1) : ts[j] = <<>>]
    ELSE <<>>

\* str.upper() on the symbols of the model
Upper(s) == CASE s = "btcusd" -> "BTCUSD"
              [] s = "xrpusd" -> "XRPUSD"
              [] OTHER -> s

\* str.lower() on the sides, order states and time-in-force values of the model
Lower(s) == CASE s = "Buy" -> "buy"
              [] s = "SELL" -> "sell"
              [] s = "CLOSED" -> "closed"
              [] s = "IOC" -> "ioc"
              [] s = "GTC" -> "gtc"
              [] OTHER -> s

\* first letter of a lower-case side
FirstLetter(s) == CASE s = "buy" -> "b"
                    [] s = "sell" -> "s"
                    [] s = "hold" -> "h"
                    [] OTHER -> ""

----------------------------------------------------------------------------
(* cachetools.TTLCache, as the keys in insertion order (oldest first).     *)
(* Writing a key that is present moves it to the end; writing a new key    *)
(* into a full cache evicts from the front.                                *)

CacheContains(c, k) == k \in Range(c)

RECURSIVE DropKey(_, _)
DropKey(c, k) ==
    IF c = <<>> THEN <<>>
    ELSE IF Head(c) = k THEN DropKey(Tail(c), k)
    ELSE <<Head(c)>> \o DropKey(Tail(c), k)

RECURSIVE Evict(_, _)
Evict(c, maxsize) ==
    IF Len(c) + 1 > maxsize /\ c # <<>> THEN Evict(Tail(c), maxsize) ELSE c

cache_set_forgets(c, k, maxsize) == c

cache_set_keeps_place(c, k, maxsize) ==
    IF CacheContains(c, k) THEN c
    ELSE Append(Evict(c, maxsize), k)

CacheSet(c, k, maxsize) ==
    IF CacheContains(c, k) THEN Append(DropKey(c, k), k)
    ELSE Append(Evict(c, maxsize), k)

\* the time-to-live of the entry that expires first runs out
CacheExpire(c) == Tail(c)

----------------------------------------------------------------------------
(* Pure helpers of the decision engine. *)

allows_missing_symbol(symbol) ==
    IF symbol = "" THEN TRUE
    ELSE ("ALL" \in ALLOW_SYMBOLS) \/ (Upper(symbol) \in ALLOW_SYMBOLS)

_is_allowed_symbol(symbol) ==
    IF symbol = "" THEN "ALL" \in ALLOW_SYMBOLS
    ELSE ("ALL" \in ALLOW_SYMBOLS) \/ (Upper(symbol) \in ALLOW_SYMBOLS)

looks_like_ours_text_only(client_order_id, text) ==
    Prefix(text, Len(our_client_prefix)) = our_client_prefix

_looks_like_ours(client_order_id, text) ==
    LET cid == Prefix(client_order_id, Len(our_client_prefix))
        tx == Prefix(text, Len(our_client_prefix))
    IN cid = our_client_prefix \/ tx = our_client_prefix

Used(symbol) ==
    IF symbol \in DOMAIN session_topup_used THEN session_topup_used[symbol] ELSE 0

_cap_ok(symbol, add_size) ==
    IF symbol = "" THEN TRUE
    ELSE (Used(symbol) + add_size) <= MAX_TOPUP_PER_SYMBOL

\* the ledger after _bump_cap(symbol, add_size)
_bump_cap(symbol, add_size) ==
    IF symbol = "" THEN session_topup_used
    ELSE [s \in DOMAIN session_topup_used \cup {symbol} |->
            IF s = symbol THEN Used(symbol) + add_size
            ELSE session_topup_used[s]]

\* n/d, d > 0, rounded to nearest with ties upwards: floor(n/d + 1/2)
round_half_up(n, d) == (2 * n + d) \div (2 * d)

\* Python's round() of the fraction n/d, d > 0: to nearest, ties to even
RoundHalfEven(n, d) ==
    LET q == n \div d
        r == n % d
    IN IF 2 * r < d THEN q
       ELSE IF 2 * r > d THEN q + 1
       ELSE IF q % 2 = 0 THEN q ELSE q + 1

\* compute_topup_size for a given multiplier (numerator over MultDen)
topup_size_unclamped(mult, filled_qty) ==
    IF mult <= MultDen THEN 0
    ELSE Max(0, RoundHalfEven((mult - MultDen) * filled_qty, MultDen))

topup_size(mult, filled_qty) ==
    IF mult <= MultDen THEN 0
    ELSE LET add == RoundHalfEven((mult - MultDen) * filled_qty, MultDen)
         IN Max(0, Min(add, MAX_TOPUP_PER_TRADE))

compute_topup_size(filled_qty) == topup_size(USER_MULTIPLIER, filled_qty)

_extract_symbol(ev) == IF ev.symbol # "" THEN Upper(ev.symbol) ELSE ""

_extract_side(ev) ==
    IF ev.side = "" THEN ""
    ELSE LET s == Lower(ev.side)
         IN IF FirstLetter(s) = "b" THEN "buy"
            ELSE IF FirstLetter(s) = "s" THEN "sell"
            ELSE ""

\* x or None, then int(x): <<n>> or <<>> when the conversion raises
IntOrFail(x) == IF x = <<>> \/ x = <<0>> THEN <<>> ELSE x

----------------------------------------------------------------------------
(* The decision engine.  Each handler is first computed as a decision: the *)
(* skip reason or "enqueue_topup", the caches after the call, and the job  *)
(* (<<>> when the event is skipped).                                       *)

NoJob == <<>>

\* handle_usertrade on the stores fills (seen_fill_ids) and trades
\* (seen_trade_ids)
handle_usertrade_from(ev, fills, trades) ==
    LET fill_id == ev.fill_id
        dupFill == fill_id # "" /\ CacheContains(fills, fill_id)
        sf == IF fill_id # "" THEN CacheSet(fills, fill_id, FILL_ID_MAX)
              ELSE fills
        trade_id == ev.id
        dupTrade == trade_id # "" /\ CacheContains(trades, trade_id)
        st == IF trade_id # "" THEN CacheSet(trades, trade_id, TRADE_ID_MAX)
              ELSE trades
        client_order_id == FirstTruthy(<<ev.client_order_id, ev.client_id, ev.text>>)
        symbol == _extract_symbol(ev)
        side == _extract_side(ev)
        qty == IntOrFail(ev.size)
        add == compute_topup_size(qty[1])
        skip(reason, t) == [reason |-> reason, sf |-> sf, st |-> t, job |-> NoJob]
    IN IF dupFill THEN skip("dup_fill_id", trades)
       ELSE IF dupTrade THEN skip("dup_trade_id", st)
       ELSE IF _looks_like_ours(client_order_id, ev.text) THEN skip("own_fill", st)
       ELSE IF ~_is_allowed_symbol(symbol) THEN skip("symbol_not_allowed", st)
       ELSE IF qty = <<>> THEN skip("missing_or_invalid_qty", st)
       ELSE IF add <= 0 THEN skip("zero_topup", st)
       ELSE IF ~_cap_ok(symbol, add) THEN skip("symbol_cap_exceeded", st)
       ELSE [reason |-> "enqueue_topup", sf |-> sf, st |-> st,
             job |-> <<[symbol |-> symbol, side |-> side, size |-> add,
                        price |-> ev.price]>>]

handle_usertrade_decision(ev) ==
    handle_usertrade_from(ev, seen_fill_ids, seen_trade_ids)

\* dict.pop(oid, None)
MapPop(m, k) == [x \in DOMAIN m \ {k} |-> m[x]]
\* m[k] = v
MapSet(m, k, v) == [x \in DOMAIN m \cup {k} |-> IF x = k THEN v ELSE m[x]]
\* m.get(k, 0)
MapGet0(m, k) == IF k \in DOMAIN m THEN m[k] ELSE 0

\* handle_order_update on the stores fills (seen_fill_ids) and cums
\* (order_fill_cum)
handle_order_update_from(ev, fills, cums) ==
    LET fill_id == ev.fill_id
        dupFill == fill_id # "" /\ CacheContains(fills, fill_id)
        sf == IF fill_id # "" THEN CacheSet(fills, fill_id, FILL_ID_MAX)
              ELSE fills
        client_order_id == FirstTruthy(<<ev.client_order_id, ev.client_id, ev.text>>)
        oid == ev.id
        state == Lower(ev.state)
        terminal == state = "closed" \/ ev.unfilled_size = <<0>>
        popped == IF terminal THEN MapPop(cums, oid) ELSE cums
        symbol == _extract_symbol(ev)
        cum == IntOrFail(ev.filled_size)
        prev == MapGet0(popped, oid)
        delta == cum[1] - prev
        side == _extract_side(ev)
        add == compute_topup_size(delta)
        stored == MapSet(popped, oid, cum[1])
        skip(reason, m) == [reason |-> reason, sf |-> sf, ofc |-> m, job |-> NoJob]
    IN IF dupFill THEN skip("dup_fill_id_order", cums)
       ELSE IF _looks_like_ours(client_order_id, ev.text)
            THEN skip("own_order_update", cums)
       ELSE IF oid = "" THEN skip("missing_order_id", cums)
       ELSE IF ~_is_allowed_symbol(symbol) THEN skip("symbol_not_allowed", popped)
       ELSE IF cum = <<>> THEN skip("missing_or_invalid_cum", popped)
       ELSE IF cum[1] <= prev THEN skip("no_new_fill_delta", stored)
       ELSE IF add <= 0 THEN skip("zero_topup", stored)
       ELSE IF ~_cap_ok(symbol, add) THEN skip("symbol_cap_exceeded", stored)
       ELSE [reason |-> "enqueue_topup", sf |-> sf, ofc |-> stored,
             job |-> <<[symbol |-> symbol, side |-> side, size |-> add,
                        price |-> ev.average_fill_price]>>]

handle_order_update_decision(ev) ==
    handle_order_update_from(ev, seen_fill_ids, order_fill_cum)

\* What on_message still holds while a handler is at one of its calls: the
\* handler that is running and the events of the frame that come after the
\* one it handles.
NoRest == [route |-> "", events |-> <<>>]

\* The record a handler is about to write, and the identifier it writes to
\* its dedup store after that record (a duplicate is logged first and
\* written again afterwards, lines 382-383, 389-390 and 435-436).
NoLog == [reason |-> "", fill_id |-> "", trade_id |-> ""]

\* the element of a set of one element
The(S) == CHOOSE x \in S : TRUE

\* the decision of the handler route on the event ev, taken on the stores
\* and the ledger as they are
HandlerDecision(route, ev) ==
    IF route = "handle_usertrade"
    THEN The({ [reason |-> d.reason, fills |-> d.sf, trades |-> d.st,
                cums |-> order_fill_cum, job |-> d.job] :
                 d \in { handle_usertrade_decision(ev) } })
    ELSE The({ [reason |-> d.reason, fills |-> d.sf, trades |-> seen_trade_ids,
                cums |-> d.ofc, job |-> d.job] :
                 d \in { handle_order_update_decision(ev) } })

\* where on_message goes on once a handler has returned: the next turn of
\* "for ev in events", or the return to ws.run_forever()
AfterEvent(rest) == IF rest = <<>> THEN "run_forever" ELSE "event"

\* One handler call, for the event ev of a frame whose later events are
\* rest, from its entry to the first call that writes a record or waits:
\* order_q.put(job) when the event is admitted, log_skip(...) when it is
\* skipped and VERBOSE_DECISIONS is set (log_skip does nothing otherwise, and
\* the handler returns).
HandleEvent(route, ev, rest) ==
    \E d \in { HandlerDecision(route, ev) } :
        \E logged \in { d.job = NoJob /\ VERBOSE_DECISIONS } :
        \E late_fill \in { logged /\ d.reason \in {"dup_fill_id", "dup_fill_id_order"} } :
        \E late_trade \in { logged /\ d.reason = "dup_trade_id" } :
            /\ seen_fill_ids' = IF late_fill THEN seen_fill_ids ELSE d.fills
            /\ seen_trade_ids' = IF late_trade THEN seen_trade_ids ELSE d.trades
            /\ order_fill_cum' = d.cums
            /\ put_job' = d.job
            /\ put_rest' = IF rest = <<>> THEN NoRest
                           ELSE [route |-> route, events |-> rest]
            /\ log_next' = IF logged
                           THEN [reason |-> d.reason,
                                 fill_id |-> IF late_fill THEN ev.fill_id ELSE "",
                                 trade_id |-> IF late_trade THEN ev.id ELSE ""]
                           ELSE NoLog
            /\ ws_pc' = IF d.job # NoJob THEN "put"
                        ELSE IF logged THEN "log"
                        ELSE AfterEvent(rest)

\* send_auth, called by on_open
AuthFrames == << "auth" >>

subscribes_reordered == << "subscribe user_trades", "subscribe orders",
                           "subscribe positions", "enable_heartbeat" >>

\* what on_message sends on the Authenticated success
SubscribeFrames == << "subscribe orders", "subscribe positions",
                      "subscribe user_trades", "enable_heartbeat" >>

route_positions_as_trades(t) ==
    IF t \in {"usertrades", "user_trades", "positions"} THEN "handle_usertrade"
    ELSE IF t = "orders" THEN "handle_order_update"
    ELSE ""

\* the handler on_message routes a message of type t to ("" when none).
\* A frame of type "success" stands for the message "Authenticated", and a
\* frame of type "unparseable" for text json.loads rejects.
RouteOf(t) ==
    IF t \in {"unparseable", "success", "heartbeat"} THEN ""
    ELSE IF t \in {"usertrades", "user_trades"} THEN "handle_usertrade"
    ELSE IF t = "orders" THEN "handle_order_update"
    ELSE ""

\* the message itself taken as the event: no identifier, tag, symbol, side,
\* quantity, state or price
MsgAsEvent ==
    [fill_id |-> "", id |-> "", client_order_id |-> <<>>, client_id |-> <<>>,
     text |-> <<>>, symbol |-> "", side |-> "", size |-> <<>>, price |-> "",
     filled_size |-> <<>>, state |-> "", unfilled_size |-> <<>>,
     average_fill_price |-> ""]

\* payload = msg.get("payload") or ... or msg;
\* events = payload if isinstance(payload, list) else [payload].  A frame
\* whose payload is a list carries it in the field events; the empty list is
\* falsy, so that the message itself becomes the one event.
Events(frame) ==
    IF "events" \notin DOMAIN frame THEN <<frame.payload>>
    ELSE IF frame.events = <<>> THEN <<MsgAsEvent>>
    ELSE frame.events

\* on_message for one frame, up to the first call of a handler that writes
\* a record or waits; on the Authenticated success, up to the first
\* subscribe
on_message(frame) ==
    /\ ws_pc = "run_forever"
    /\ shutdown_pc = <<>>
    /\ IF frame.type = "success"
       THEN \* LAST_CONN_OK_AT = _now()
            /\ had_health' = TRUE
            /\ ws_out' = SubscribeFrames
            /\ ws_pc' = "subscribe"
            /\ UNCHANGED <<dedupvars, put_job, put_rest, log_next>>
       ELSE IF RouteOf(frame.type) = ""
       THEN /\ had_health' = IF frame.type = "heartbeat" THEN TRUE ELSE had_health
            /\ UNCHANGED <<dedupvars, ws_pc, put_job, put_rest, log_next, ws_out>>
       ELSE /\ HandleEvent(RouteOf(frame.type), Head(Events(frame)),
                           Tail(Events(frame)))
            /\ UNCHANGED <<had_health, ws_out>>
    /\ UNCHANGED <<backoff, wait, ws_sent, log_last>>
    /\ UNCHANGED <<cfgvars, session_topup_used, order_q, STOP_EVENT, SHUTDOWN_ONCE,
                   shutdown_pc, CURRENT_WS, workervars>>

\* the next turn of "for ev in events": the handler is called for the next
\* event of the frame
HandleNextEvent ==
    /\ ws_pc = "event"
    /\ shutdown_pc = <<>>
    /\ HandleEvent(put_rest.route, Head(put_rest.events), Tail(put_rest.events))
    /\ UNCHANGED <<cfgvars, connvars, session_topup_used, order_q, STOP_EVENT,
                   SHUTDOWN_ONCE, shutdown_pc, CURRENT_WS, ws_out,
                   workervars, log_last, envvars>>

\* order_q.put(job) returns: it waits while the queue is full
order_q_put ==
    /\ ws_pc = "put"
    /\ shutdown_pc = <<>>
    /\ Len(order_q) < QueueMax
    /\ order_q' = Append(order_q, put_job)
    /\ put_job' = NoJob
    /\ log_next' = [NoLog EXCEPT !.reason = "enqueue_topup"]
    /\ ws_pc' = "log"
    /\ UNCHANGED <<cfgvars, connvars, dedupvars, session_topup_used, STOP_EVENT,
                   SHUTDOWN_ONCE, shutdown_pc, CURRENT_WS, put_rest,
                   ws_out, workervars, log_last>>

QueuePut ==
    /\ order_q_put
    /\ UNCHANGED envvars

\* log_skip(reason, ...) or log_action("enqueue_topup", job) writes its
\* record; the handler then returns, unless it still has to write the
\* identifier of a duplicate
LogDecision ==
    /\ ws_pc = "log"
    /\ shutdown_pc = <<>>
    /\ log_last' = log_next.reason
    /\ IF log_next.fill_id # "" \/ log_next.trade_id # ""
       THEN /\ log_next' = [log_next EXCEPT !.reason = ""]
            /\ ws_pc' = "rewrite"
       ELSE /\ log_next' = NoLog
            /\ ws_pc' = AfterEvent(put_rest.events)
    /\ UNCHANGED <<cfgvars, connvars, dedupvars, session_topup_used, order_q,
                   STOP_EVENT, SHUTDOWN_ONCE, shutdown_pc, CURRENT_WS,
                   put_job, put_rest, ws_out, workervars, envvars>>

\* seen_fill_ids[fill_id] = True, or seen_trade_ids[trade_id] = True, after
\* the log_skip of a duplicate, and the handler returns
RewriteSeen ==
    /\ ws_pc = "rewrite"
    /\ shutdown_pc = <<>>
    /\ seen_fill_ids' = IF log_next.fill_id # ""
                        THEN CacheSet(seen_fill_ids, log_next.fill_id, FILL_ID_MAX)
                        ELSE seen_fill_ids
    /\ seen_trade_ids' = IF log_next.trade_id # ""
                         THEN CacheSet(seen_trade_ids, log_next.trade_id, TRADE_ID_MAX)
                         ELSE seen_trade_ids
    /\ log_next' = NoLog
    /\ ws_pc' = AfterEvent(put_rest.events)
    /\ UNCHANGED <<cfgvars, connvars, order_fill_cum, session_topup_used, order_q,
                   STOP_EVENT, SHUTDOWN_ONCE, shutdown_pc, CURRENT_WS,
                   put_job, put_rest, ws_out, workervars, log_last, envvars>>

\* subscribe(ws, channel, symbols) writes log_action("subscribe", ...)
subscribe ==
    /\ ws_pc = "subscribe"
    /\ shutdown_pc = <<>>
    /\ log_last' = "subscribe"
    /\ ws_pc' = "send"
    /\ UNCHANGED <<cfgvars, connvars, dedupvars, session_topup_used, order_q,
                   STOP_EVENT, SHUTDOWN_ONCE, shutdown_pc, CURRENT_WS,
                   put_job, put_rest, log_next, ws_out, workervars, envvars>>

\* ws.send(...) of send_auth, of subscribe and of the enable_heartbeat that
\* follows the subscriptions: the callback goes on with the next frame it
\* has to send, or returns
ws_send ==
    /\ ws_pc = "send"
    /\ shutdown_pc = <<>>
    /\ ws_sent' = IF Len(ws_sent) < MaxSent THEN Append(ws_sent, Head(ws_out))
                  ELSE ws_sent
    /\ ws_out' = Tail(ws_out)
    /\ ws_pc' = IF Tail(ws_out) = <<>> THEN "run_forever"
                ELSE IF Head(Tail(ws_out)) = "enable_heartbeat" THEN "send"
                ELSE "subscribe"
    /\ UNCHANGED <<backoff, had_health, wait>>
    /\ UNCHANGED <<cfgvars, dedupvars, session_topup_used, order_q, STOP_EVENT,
                   SHUTDOWN_ONCE, shutdown_pc, CURRENT_WS, put_job,
                   put_rest, log_next, workervars, log_last, envvars>>

----------------------------------------------------------------------------
(* REST submission. *)

\* uuid4().hex[:10] of build_client_order_id, one letter in the model
Suffixes == {"a", "b"}

build_client_order_id_untagged(suffix) == <<suffix>>

build_client_order_id(suffix) == SELF_TAG_PREFIX \o <<suffix>>

\* _adjust_limit with LIMIT_SLIPPAGE_BPS = 0: the price reformatted, or ""
\* (None) when it is missing or not a number
_adjust_limit(side, base_price) ==
    CASE base_price = "" -> ""
      [] base_price = "abc" -> ""
      [] base_price = "100.0" -> "100"
      [] OTHER -> base_price

\* the request body place_order_topup builds for a job
OrderBody(j, suffix) ==
    [side |-> Lower(j.side), order_type |-> ORDER_TYPE,
     time_in_force |-> Lower(TIF), size |-> j.size,
     client_order_id |-> build_client_order_id(suffix),
     limit_price |-> IF ORDER_TYPE = "limit_order"
                     THEN _adjust_limit(Lower(j.side), j.price) ELSE ""]

\* body2 of the IOC fallback
FallbackBody(body, suffix) ==
    [body EXCEPT !.order_type = "market_order",
                 !.client_order_id = build_client_order_id(suffix),
                 !.limit_price = ""]

\* what rest_post("/v2/orders", body) can return once its retries are over:
\* the final status and, for 200, the state and cancellation reason of the
\* order in the response
NoDepth == "order_size_not_available_in_orderbook"
RestOutcomes ==
    { [status |-> 200, state |-> "closed", cancellation_reason |-> ""],
      [status |-> 200, state |-> "cancelled", cancellation_reason |-> NoDepth],
      [status |-> 200, state |-> "cancelled", cancellation_reason |-> "other"],
      [status |-> 400, state |-> "", cancellation_reason |-> ""],
      [status |-> 500, state |-> "", cancellation_reason |-> ""],
      [status |-> 0, state |-> "", cancellation_reason |-> ""] }

fallback_on_any_cancel(out) ==
    /\ out.status = 200
    /\ out.state = "cancelled"
    /\ ORDER_TYPE = "limit_order"
    /\ Lower(TIF) = "ioc"
    /\ LIMIT_IOC_FALLBACK_MARKET
    /\ ~DRY_RUN

\* the condition of the IOC fallback (lines 229-233)
FallbackApplies(out) ==
    /\ out.status = 200
    /\ out.state = "cancelled"
    /\ out.cancellation_reason = NoDepth
    /\ ORDER_TYPE = "limit_order"
    /\ Lower(TIF) = "ioc"
    /\ LIMIT_IOC_FALLBACK_MARKET
    /\ ~DRY_RUN

----------------------------------------------------------------------------
(* rest_post, as a function of what its successive HTTP attempts meet: a   *)
(* response with a status code and a body, or an exception with a text.    *)

retryable_any_error(st) == st >= 400

\* status == 429 or 500 <= status < 600
Retryable(st) == st = 429 \/ (500 <= st /\ st < 600)

\* the loop body from "attempt += 1" on, attempt being the incremented value
RECURSIVE RestPostFrom(_, _)
RestPostFrom(attempt, outs) ==
    LET o == outs[attempt]
    IN IF ~o.exc
       THEN IF attempt < HTTP_RETRIES /\ Retryable(o.status)
            THEN RestPostFrom(attempt + 1, outs)
            ELSE [status |-> o.status, data |-> o.text, attempts |-> attempt]
       ELSE IF attempt >= HTTP_RETRIES
            THEN [status |-> 0, data |-> o.text, attempts |-> attempt]
            ELSE RestPostFrom(attempt + 1, outs)

rest_post(outs) == RestPostFrom(1, outs)

----------------------------------------------------------------------------
(* order_worker. *)

worker_loop_ignores_stop ==
    /\ worker_pc = "loop"
    /\ worker_pc' = "get"
    /\ UNCHANGED <<cfgvars, connvars, dedupvars, session_topup_used, order_q, STOP_EVENT,
                   SHUTDOWN_ONCE, shutdown_pc, CURRENT_WS, ws_pc, put_job, put_rest, log_next, ws_out, job, sent, status,
                   log_last, envvars>>

\* while not STOP_EVENT.is_set()
WorkerLoop ==
    /\ worker_pc = "loop"
    /\ worker_pc' = IF STOP_EVENT THEN "done" ELSE "get"
    /\ UNCHANGED <<cfgvars, connvars, dedupvars, session_topup_used, order_q, STOP_EVENT,
                   SHUTDOWN_ONCE, shutdown_pc, CURRENT_WS, ws_pc, put_job, put_rest, log_next, ws_out, job, sent, status,
                   log_last, envvars>>

job_valid_size_only(j) == ~(j.size <= 0)

\* not (size <= 0 or side not in ("buy", "sell"))
JobValid(j) == ~(j.size <= 0 \/ j.side \notin {"buy", "sell"})

\* the job passes the worker's cap check
worker_cap_unchecked(j) == TRUE

WorkerCapOk(j) == _cap_ok(j.symbol, j.size)

early_return_ignores_dry_run(j) ==
    IF j.size <= 0 THEN <<200>>
    ELSE IF ORDER_TYPE = "limit_order" /\ _adjust_limit(Lower(j.side), j.price) = ""
    THEN <<400>>
    ELSE <<>>

\* the status place_order_topup returns before any rest_post (non-positive
\* size, dry run, missing limit price), or <<>> when it goes on to submit
EarlyReturn(j) ==
    IF j.size <= 0 THEN <<200>>
    ELSE IF DRY_RUN THEN <<200>>
    ELSE IF ORDER_TYPE = "limit_order" /\ _adjust_limit(Lower(j.side), j.price) = ""
    THEN <<400>>
    ELSE <<>>

queue_get_peeks(q) == q

\* the queue after order_q.get() has taken its oldest item
QueueGet(q) == Tail(q)

\* job = order_q.get() (it needs the mutex of the queue), the
\* re-validation, and place_order_topup up to its first rest_post
WorkerGet ==
    /\ worker_pc = "get"
    /\ ~mutex_held
    /\ order_q # <<>>
    /\ order_q' = QueueGet(order_q)
    /\ LET item == Head(order_q)
       IN IF item = NoJob
          THEN /\ worker_pc' = "done"
               /\ UNCHANGED <<job, sent, status>>
          ELSE LET j == item[1]
               IN /\ job' = j
                  /\ IF ~JobValid(j) \/ ~WorkerCapOk(j)
                     THEN /\ worker_pc' = "loop"
                          /\ sent' = <<>>
                          /\ UNCHANGED status
                     ELSE IF EarlyReturn(j) # <<>>
                     THEN /\ worker_pc' = "result"
                          /\ status' = EarlyReturn(j)[1]
                          /\ sent' = <<>>
                     ELSE /\ worker_pc' = "http"
                          /\ \E sfx \in Suffixes : sent' = <<OrderBody(j, sfx)>>
                          /\ UNCHANGED status
    /\ UNCHANGED <<cfgvars, connvars, dedupvars, session_topup_used, STOP_EVENT,
                   SHUTDOWN_ONCE, shutdown_pc, CURRENT_WS, ws_pc, put_job, put_rest, log_next, ws_out, log_last, envvars>>

\* the first rest_post returns out; the IOC fallback makes the second one
\* (uuid4 gives it a suffix that was not drawn before)
RestReturnOn(out) ==
    /\ worker_pc = "http"
    /\ IF FallbackApplies(out)
       THEN /\ \E sfx \in Suffixes :
                  /\ build_client_order_id(sfx) # sent[1].client_order_id
                  /\ sent' = Append(sent, FallbackBody(sent[1], sfx))
            /\ worker_pc' = "http2"
            /\ UNCHANGED status
       ELSE /\ status' = out.status
            /\ worker_pc' = "result"
            /\ UNCHANGED sent
    /\ UNCHANGED <<cfgvars, connvars, dedupvars, session_topup_used, order_q, STOP_EVENT,
                   SHUTDOWN_ONCE, shutdown_pc, CURRENT_WS, ws_pc, put_job, put_rest, log_next, ws_out, job, log_last,
                   envvars>>

RestReturn == \E out \in RestOutcomes : RestReturnOn(out)

\* the rest_post of the fallback returns out
RestReturn2On(out) ==
    /\ worker_pc = "http2"
    /\ status' = out.status
    /\ worker_pc' = "result"
    /\ UNCHANGED <<cfgvars, connvars, dedupvars, session_topup_used, order_q, STOP_EVENT,
                   SHUTDOWN_ONCE, shutdown_pc, CURRENT_WS, ws_pc, put_job, put_rest, log_next, ws_out, job, sent, log_last,
                   envvars>>

RestReturn2 == \E out \in RestOutcomes : RestReturn2On(out)

\* the ledger after place_order_topup returned st for job j
ledger_bumped_always(st, j) == _bump_cap(j.symbol, j.size)

LedgerAfter(st, j) ==
    IF st = 200 THEN _bump_cap(j.symbol, j.size) ELSE session_topup_used

\* place_order_topup has returned: bump the ledger on 200, else sleep
WorkerResult ==
    /\ worker_pc = "result"
    /\ session_topup_used' = LedgerAfter(status, job)
    /\ worker_pc' = "loop"
    /\ UNCHANGED <<cfgvars, connvars, dedupvars, order_q, STOP_EVENT, SHUTDOWN_ONCE, shutdown_pc,
                   CURRENT_WS, ws_pc, put_job, put_rest, log_next, ws_out, job, sent, status, log_last,
                   envvars>>

----------------------------------------------------------------------------
(* The signal handler, shutdown, run_ws_forever and the end of main.       *)
(* They all run on the main thread.  _handle_sig is installed for SIGINT   *)
(* and SIGTERM when the module is imported; the interpreter runs it on the *)
(* main thread between two instructions of whatever that thread is doing,  *)
(* a handler that is running included, and the thread goes on where it was *)
(* when the handler returns.                                               *)

\* order_q.put_nowait(None), Full ignored
PutNowaitSentinel(q) == IF Len(q) < QueueMax THEN Append(q, NoJob) ELSE q

\* A signal arrives: log_action("signal", ...), then shutdown is called.
\* The call is not kept when it will find SHUTDOWN_ONCE set or can never
\* set it, and it takes the place of a call that had not yet tested the
\* flag.  Inside order_q.put(job) the main thread holds the mutex of the
\* queue from its entry until it waits for room, and again from there to
\* the return; the handler may find it there before the job was appended or
\* after it was.  Inside SHUTDOWN_ONCE.set() of a shutdown that is running
\* the thread holds the lock of that event before it writes the flag.
_handle_sig ==
    /\ ~(ws_pc = "atexit" /\ shutdown_pc = <<>>)
    /\ log_last' = "signal"
    /\ \/ /\ SHUTDOWN_ONCE \/ Holds("once") \/ ShutdownAt("enter")
          /\ UNCHANGED <<shutdown_pc, order_q, put_job, log_next, ws_pc>>
       \/ /\ ~SHUTDOWN_ONCE
          /\ ~Holds("once")
          /\ shutdown_pc = <<>> \/ ShutdownAt("set")
          /\ shutdown_pc' = Called("")
          /\ UNCHANGED <<order_q, put_job, log_next, ws_pc>>
       \/ /\ ~SHUTDOWN_ONCE
          /\ shutdown_pc = <<>>
          /\ ws_pc = "put"
          /\ shutdown_pc' = Called("queue")
          /\ UNCHANGED <<order_q, put_job, log_next, ws_pc>>
       \/ /\ ~SHUTDOWN_ONCE
          /\ shutdown_pc = <<>>
          /\ ws_pc = "put"
          /\ Len(order_q) < QueueMax
          /\ shutdown_pc' = Called("queue")
          /\ order_q' = Append(order_q, put_job)
          /\ put_job' = NoJob
          /\ log_next' = [NoLog EXCEPT !.reason = "enqueue_topup"]
          /\ ws_pc' = "log"
       \/ /\ ShutdownAt("set")
          /\ ~Holds("once")
          /\ shutdown_pc' = Called("once")
          /\ UNCHANGED <<order_q, put_job, log_next, ws_pc>>
    /\ UNCHANGED <<cfgvars, connvars, dedupvars, session_topup_used, STOP_EVENT,
                   SHUTDOWN_ONCE, CURRENT_WS, put_rest, ws_out, workervars, envvars>>

\* shutdown() is entered: if SHUTDOWN_ONCE.is_set(): return (the code it
\* interrupted goes on)
shutdown ==
    /\ ShutdownAt("enter")
    /\ shutdown_pc' \in (IF SHUTDOWN_ONCE THEN Returned ELSE {Goto("set")})
    /\ UNCHANGED <<cfgvars, connvars, dedupvars, session_topup_used, order_q,
                   STOP_EVENT, SHUTDOWN_ONCE, CURRENT_WS, ws_pc, put_job, put_rest,
                   log_next, ws_out, workervars, log_last, envvars>>

\* SHUTDOWN_ONCE.set(): it takes the lock of the event first, and waits for
\* it for ever when the call of shutdown the handler interrupted holds it
shutdown_set ==
    /\ ShutdownAt("set")
    /\ ~Holds("once")
    /\ SHUTDOWN_ONCE' = TRUE
    /\ shutdown_pc' = Goto("log_start")
    /\ UNCHANGED <<cfgvars, connvars, dedupvars, session_topup_used, order_q,
                   STOP_EVENT, CURRENT_WS, ws_pc, put_job, put_rest, log_next,
                   ws_out, workervars, log_last, envvars>>

\* log_action("shutdown_start", ...)
shutdown_log_start ==
    /\ ShutdownAt("log_start")
    /\ log_last' = "shutdown_start"
    /\ shutdown_pc' = Goto("stop")
    /\ UNCHANGED <<cfgvars, connvars, dedupvars, session_topup_used, order_q,
                   STOP_EVENT, SHUTDOWN_ONCE, CURRENT_WS, ws_pc, put_job,
                   put_rest, log_next, ws_out, workervars, envvars>>

\* STOP_EVENT.set()
shutdown_stop ==
    /\ ShutdownAt("stop")
    /\ STOP_EVENT' = TRUE
    /\ shutdown_pc' = Goto("sentinel")
    /\ UNCHANGED <<cfgvars, connvars, dedupvars, session_topup_used, order_q,
                   SHUTDOWN_ONCE, CURRENT_WS, ws_pc, put_job, put_rest,
                   log_next, ws_out, workervars, log_last, envvars>>

\* order_q.put_nowait(None): it takes the mutex of the queue first, and
\* waits for it for ever when the code the handler interrupted holds it
shutdown_sentinel ==
    /\ ShutdownAt("sentinel")
    /\ ~mutex_held
    /\ order_q' = PutNowaitSentinel(order_q)
    /\ shutdown_pc' = Goto("close")
    /\ UNCHANGED <<cfgvars, connvars, dedupvars, session_topup_used, STOP_EVENT,
                   SHUTDOWN_ONCE, CURRENT_WS, ws_pc, put_job, put_rest,
                   log_next, ws_out, workervars, log_last, envvars>>

\* if CURRENT_WS is not None: CURRENT_WS.close()
shutdown_close ==
    /\ ShutdownAt("close")
    /\ CURRENT_WS' = IF CURRENT_WS # "None" THEN "closed" ELSE CURRENT_WS
    /\ shutdown_pc' = Goto("log_sent")
    /\ UNCHANGED <<cfgvars, connvars, dedupvars, session_topup_used, order_q,
                   STOP_EVENT, SHUTDOWN_ONCE, ws_pc, put_job, put_rest,
                   log_next, ws_out, workervars, log_last, envvars>>

\* log_action("shutdown_signal_sent", {}), and shutdown returns
shutdown_log_sent ==
    /\ ShutdownAt("log_sent")
    /\ log_last' = "shutdown_signal_sent"
    /\ shutdown_pc' \in Returned
    /\ UNCHANGED <<cfgvars, connvars, dedupvars, session_topup_used, order_q,
                   STOP_EVENT, SHUTDOWN_ONCE, CURRENT_WS, ws_pc, put_job,
                   put_rest, log_next, ws_out, workervars, envvars>>

backoff_never_reset(prev, health) == Min(prev * 2, BACKOFF_MAX)

\* backoff = BACKOFF_BASE if had_health else min(backoff * 2.0, BACKOFF_MAX)
NextBackoff(prev, health) ==
    IF health THEN BACKOFF_BASE ELSE Min(prev * 2, BACKOFF_MAX)

\* range(int(wait * 10)) with wait = backoff * (1.0 +
\* random.uniform(0.0, BACKOFF_JITTER)): the number of 0.1 s naps of the
\* backoff sleep for backoff b.  The draw is continuous, so every whole
\* number from 10 b to 10 b (1 + BACKOFF_JITTER) can come out
\* (BACKOFF_JITTER is a numerator over JitterDen = 10).
Waits(b) == (b * JitterDen) .. (b * (JitterDen + BACKOFF_JITTER))

\* ws.run_forever() returns (the connection failed before on_open, the
\* socket failed, the peer closed it, or shutdown closed it) and CURRENT_WS
\* is cleared
WsSessionEnd ==
    /\ ws_pc \in {"connect", "run_forever"}
    /\ shutdown_pc = <<>>
    /\ CURRENT_WS' = "None"
    /\ ws_pc' = "check"
    /\ UNCHANGED <<cfgvars, connvars, dedupvars, session_topup_used, order_q,
                   STOP_EVENT, SHUTDOWN_ONCE, shutdown_pc, put_job,
                   put_rest, log_next, ws_out, workervars, log_last, envvars>>

\* if STOP_EVENT.is_set(): break; otherwise the next backoff and the wait
\* are decided
WsStopCheck ==
    /\ ws_pc = "check"
    /\ shutdown_pc = <<>>
    /\ IF STOP_EVENT
       THEN /\ ws_pc' = "exit"
            /\ UNCHANGED <<backoff, wait>>
       ELSE /\ ws_pc' = "log_wait"
            /\ backoff' = NextBackoff(backoff, had_health)
            /\ wait' \in Waits(NextBackoff(backoff, had_health))
    /\ UNCHANGED <<had_health, ws_sent>>
    /\ UNCHANGED <<cfgvars, dedupvars, session_topup_used, order_q, STOP_EVENT,
                   SHUTDOWN_ONCE, shutdown_pc, CURRENT_WS, put_job,
                   put_rest, log_next, ws_out, workervars, log_last, envvars>>

\* log_action("reconnect_wait", ...), and the backoff sleep begins
WsReconnectWait ==
    /\ ws_pc = "log_wait"
    /\ shutdown_pc = <<>>
    /\ log_last' = "reconnect_wait"
    /\ ws_pc' = "sleep"
    /\ UNCHANGED <<cfgvars, connvars, dedupvars, session_topup_used, order_q,
                   STOP_EVENT, SHUTDOWN_ONCE, shutdown_pc, CURRENT_WS,
                   put_job, put_rest, log_next, ws_out, workervars, envvars>>

\* the loop body of run_ws_forever begins, for the first time or after the
\* backoff sleep has ended (or was cut short by the stop flag; the loop is
\* "while True"): session_start = _now(), a new WebSocketApp becomes
\* CURRENT_WS and ws.run_forever() starts to connect
WsSessionStart ==
    /\ ws_pc \in {"start", "sleep"}
    /\ shutdown_pc = <<>>
    /\ CURRENT_WS' = "open"
    /\ ws_pc' = "connect"
    /\ had_health' = FALSE
    /\ ws_sent' = <<>>
    /\ wait' = 0
    /\ UNCHANGED backoff
    /\ UNCHANGED <<cfgvars, dedupvars, session_topup_used, order_q, STOP_EVENT,
                   SHUTDOWN_ONCE, shutdown_pc, put_job, put_rest,
                   log_next, ws_out, workervars, log_last, envvars>>

\* the socket has connected: on_open calls send_auth, which writes
\* log_action("auth_send", ...) and then sends the authentication
on_open ==
    /\ ws_pc = "connect"
    /\ shutdown_pc = <<>>
    /\ ws_pc' = "send"
    /\ ws_out' = AuthFrames
    /\ log_last' = "auth_send"
    /\ UNCHANGED <<cfgvars, connvars, dedupvars, session_topup_used, order_q,
                   STOP_EVENT, SHUTDOWN_ONCE, shutdown_pc, CURRENT_WS,
                   put_job, put_rest, log_next, workervars, envvars>>

\* run_ws_forever has returned to main, whose finally clause calls
\* shutdown("finally")
main_finally ==
    /\ ws_pc = "exit"
    /\ shutdown_pc = <<>>
    /\ ws_pc' = "finally"
    /\ shutdown_pc' = Called("")
    /\ UNCHANGED <<cfgvars, connvars, dedupvars, session_topup_used, order_q,
                   STOP_EVENT, SHUTDOWN_ONCE, CURRENT_WS, put_job,
                   put_rest, log_next, ws_out, workervars, log_last, envvars>>

\* worker.join(timeout=5.0) returns, with the worker ended or not, and main
\* writes log_action("shutdown_done", {})
main_join ==
    /\ ws_pc = "finally"
    /\ shutdown_pc = <<>>
    /\ ws_pc' = "done"
    /\ log_last' = "shutdown_done"
    /\ UNCHANGED <<cfgvars, connvars, dedupvars, session_topup_used, order_q,
                   STOP_EVENT, SHUTDOWN_ONCE, shutdown_pc, CURRENT_WS,
                   put_job, put_rest, log_next, ws_out, workervars, envvars>>

\* the interpreter exits: it waits for the worker thread, which is not a
\* daemon, and then calls shutdown, registered with atexit
main_atexit ==
    /\ ws_pc = "done"
    /\ shutdown_pc = <<>>
    /\ worker_pc = "done"
    /\ ws_pc' = "atexit"
    /\ shutdown_pc' = Called("")
    /\ UNCHANGED <<cfgvars, connvars, dedupvars, session_topup_used, order_q,
                   STOP_EVENT, SHUTDOWN_ONCE, CURRENT_WS, put_job,
                   put_rest, log_next, ws_out, workervars, log_last, envvars>>

----------------------------------------------------------------------------
(* Inbound events of the model. *)

FillIds == {"", "F1", "F2"}
TradeIds == {"", "T1"}
OrderIds == {"", "O1"}
Symbols == {"", "btcusd", "XRPUSD"}
Sides == {"", "Buy", "hold"}
Qtys == {<<>>} \cup {<<n>> : n \in 0..MaxQty}
PosQtys == {<<n>> : n \in 1..MaxQty}

TagNone == <<>>
TagForeign == <<"E", "X", "1">>
TagShort == <<"B">>
TagOurs == <<"B", "_", "z">>

\* <<client_order_id, client_id, text>>
NoTags == <<TagNone, TagNone, TagNone>>
OursTriples == { <<TagOurs, TagNone, TagNone>>, <<TagNone, TagOurs, TagNone>>,
                 <<TagForeign, TagNone, TagOurs>> }
ForeignTriples == { NoTags, <<TagForeign, TagNone, TagNone>>,
                    <<TagForeign, TagOurs, TagNone>>, <<TagShort, TagNone, TagNone>> }
TagTriples == OursTriples \cup ForeignTriples

BaseTrade ==
    [fill_id |-> "", id |-> "", client_order_id |-> TagNone, client_id |-> TagNone,
     text |-> TagNone, symbol |-> "btcusd", side |-> "Buy", size |-> <<1>>,
     price |-> "100"]

BaseOrder ==
    [fill_id |-> "", id |-> "O1", client_order_id |-> TagNone, client_id |-> TagNone,
     text |-> TagNone, symbol |-> "btcusd", side |-> "Buy", filled_size |-> <<1>>,
     state |-> "open", unfilled_size |-> <<1>>, average_fill_price |-> "100"]

WithTags(ev, g) ==
    [ev EXCEPT !.client_order_id = g[1], !.client_id = g[2], !.text = g[3]]

\* <<state, unfilled_size>>
Terminals == { <<"open", <<1>> >>, <<"open", <<0>> >>, <<"CLOSED", <<1>> >> }

\* The events of the ingestion specification: the base event varied in its
\* identifiers and quantity, in its tags and symbol, and in its side and price.
UserTradeEvents ==
    { WithTags([BaseTrade EXCEPT !.fill_id = f, !.id = t, !.size = q], g) :
        f \in FillIds, t \in TradeIds, q \in Qtys,
        g \in {NoTags, <<TagOurs, TagNone, TagNone>>} }
    \cup { WithTags([BaseTrade EXCEPT !.symbol = s], g) :
             s \in Symbols, g \in TagTriples }
    \cup { [BaseTrade EXCEPT !.side = d] : d \in Sides }

OrderEvents ==
    { WithTags([BaseOrder EXCEPT !.fill_id = f, !.id = o, !.filled_size = q,
                                 !.state = z[1], !.unfilled_size = z[2]], g) :
        f \in {"", "F1"}, o \in OrderIds, q \in Qtys, z \in Terminals,
        g \in {NoTags, <<TagOurs, TagNone, TagNone>>} }
    \cup { WithTags([BaseOrder EXCEPT !.symbol = s], g) :
             s \in Symbols, g \in TagTriples }
    \cup { [BaseOrder EXCEPT !.side = d] : d \in Sides }

\* frames that are neither user_trades nor orders
OtherFrames == { [type |-> "positions", payload |-> BaseTrade],
                 [type |-> "unknown", payload |-> BaseTrade] }

\* the authentication success, a heartbeat, and text that is not JSON
ControlFrames == { [type |-> "success", payload |-> BaseTrade],
                   [type |-> "heartbeat", payload |-> BaseTrade],
                   [type |-> "unparseable", payload |-> BaseTrade] }

Frames ==
    { [type |-> "user_trades", payload |-> e] : e \in UserTradeEvents }
    \cup { [type |-> "orders", payload |-> e] : e \in OrderEvents }
    \cup OtherFrames

\* frames whose payload is a list of events
TradeListFrames ==
    { [type |-> "user_trades",
       events |-> << [BaseTrade EXCEPT !.size = <<MaxQty>>], BaseTrade >>],
      [type |-> "user_trades", events |-> <<>>] }

OrderListFrames ==
    { [type |-> "orders",
       events |-> << BaseOrder, [BaseOrder EXCEPT !.filled_size = <<MaxQty>>,
                                                  !.unfilled_size = <<0>>] >>],
      [type |-> "orders", events |-> <<>>] }

\* The events of the whole-system specification: a trade fill without
\* identifiers that gives a job of the largest size, and a fill of the bot's
\* own order; its frames carry one event, a list of two, or an empty list.
FewTradeEvents ==
    { [BaseTrade EXCEPT !.size = <<MaxQty>>],
      [BaseTrade EXCEPT !.client_order_id = TagOurs] }

FewFrames ==
    { [type |-> "user_trades", payload |-> e] : e \in FewTradeEvents }
    \cup { [type |-> "user_trades",
            events |-> << [BaseTrade EXCEPT !.size = <<MaxQty>>],
                          [BaseTrade EXCEPT !.size = <<MaxQty>>] >>],
           [type |-> "user_trades", events |-> <<>>] }
    \cup OtherFrames

\* a frame arrives on the socket and is handled
OnMessage ==
    /\ \E frame \in FewFrames : on_message(frame)
    /\ UNCHANGED envvars

OnMessageAny ==
    /\ \E frame \in Frames : on_message(frame)
    /\ UNCHANGED envvars

\* the exchange reports a fill or an update of an order the worker submitted
EchoFrames(body) ==
    { [type |-> "user_trades",
       payload |-> [BaseTrade EXCEPT !.client_order_id = body.client_order_id,
                                     !.side = body.side,
                                     !.size = <<body.size>>]],
      [type |-> "orders",
       payload |-> [BaseOrder EXCEPT !.client_order_id = body.client_order_id,
                                     !.id = "O9", !.side = body.side,
                                     !.filled_size = <<body.size>>,
                                     !.state = "closed",
                                     !.unfilled_size = <<0>>]] }

OnEcho ==
    /\ \E i \in 1..Len(sent) : \E frame \in EchoFrames(sent[i]) : on_message(frame)
    /\ UNCHANGED envvars

----------------------------------------------------------------------------
(* The exchange fills an external order of OrderSize contracts and reports  *)
(* each fill on the orders channel and, when it serves that stream, on the  *)
(* user_trades channel.                                                     *)

FillNames == <<"F1", "F2", "F3", "F4">>
TradeNames == <<"T1", "T2", "T3", "T4">>

FillTradeFrame(q, cum) ==
    [type |-> "user_trades",
     payload |-> [BaseTrade EXCEPT !.fill_id = FillNames[cum], !.id = TradeNames[cum],
                                   !.client_order_id = TagForeign, !.side = "SELL",
                                   !.size = <<q>>]]

OrderFrame(cum, state, fid) ==
    [type |-> "orders",
     payload |-> [BaseOrder EXCEPT !.fill_id = fid, !.client_order_id = TagForeign,
                                   !.side = "SELL",
                                   !.filled_size = <<cum>>, !.state = state,
                                   !.unfilled_size = <<OrderSize - cum>>]]

ExchangeFill ==
    /\ ext_state = "open"
    /\ wire = <<>>
    /\ \E q \in 1..(OrderSize - ext_cum) :
          LET cum == ext_cum + q
          IN /\ ext_cum' = cum
             /\ \E fid \in {"", FillNames[cum]} :
                   wire' = IF ut_stream
                           THEN <<FillTradeFrame(q, cum), OrderFrame(cum, "open", fid)>>
                           ELSE <<OrderFrame(cum, "open", fid)>>
    /\ UNCHANGED <<cfgvars, connvars, dedupvars, session_topup_used, order_q, STOP_EVENT,
                   SHUTDOWN_ONCE, shutdown_pc, CURRENT_WS, ws_pc, put_job, put_rest, log_next, ws_out, workervars, log_last,
                   ext_state, ut_stream, enq_total, calc_in, calc_out>>

\* the order is closed (filled, or its remainder cancelled)
ExchangeClose ==
    /\ ext_state = "open"
    /\ wire = <<>>
    /\ ext_state' = "closed"
    /\ wire' = <<OrderFrame(ext_cum, "closed", "")>>
    /\ UNCHANGED <<cfgvars, connvars, dedupvars, session_topup_used, order_q, STOP_EVENT,
                   SHUTDOWN_ONCE, shutdown_pc, CURRENT_WS, ws_pc, put_job, put_rest, log_next, ws_out, workervars, log_last,
                   ext_cum, ut_stream, enq_total, calc_in, calc_out>>

\* the next frame of the exchange is received and on_message begins
Deliver ==
    /\ wire # <<>>
    /\ on_message(Head(wire))
    /\ wire' = Tail(wire)
    /\ UNCHANGED <<ext_cum, ext_state, ut_stream, enq_total, calc_in, calc_out>>

\* order_q.put(job) returns for a job made from a frame of the exchange:
\* its size is counted
ExchangePut ==
    /\ order_q_put
    /\ enq_total' = enq_total + put_job[1].size
    /\ UNCHANGED <<ext_cum, ext_state, ut_stream, wire, calc_in, calc_out>>

----------------------------------------------------------------------------
(* Specifications. *)

Config(m, allow, ot, tif, fb, dry) ==
    /\ VERBOSE_DECISIONS \in BOOLEAN
    /\ MAX_TOPUP_PER_TRADE = 3
    /\ BACKOFF_BASE = 1
    /\ BACKOFF_MAX = 1
    /\ BACKOFF_JITTER = 0
    /\ HTTP_RETRIES = 3
    /\ USER_MULTIPLIER = m
    /\ ALLOW_SYMBOLS = allow
    /\ ORDER_TYPE = ot
    /\ TIF = tif
    /\ LIMIT_IOC_FALLBACK_MARKET = fb
    /\ DRY_RUN = dry

NoCurrentJob == [symbol |-> "", side |-> "", size |-> 0, price |-> ""]

\* the module after import, with the worker thread started and
\* run_ws_forever entered: no socket yet, nothing sent
InitState ==
    /\ seen_fill_ids = <<>>
    /\ seen_trade_ids = <<>>
    /\ order_fill_cum = <<>>
    /\ order_q = <<>>
    /\ STOP_EVENT = FALSE
    /\ SHUTDOWN_ONCE = FALSE
    /\ shutdown_pc = <<>>
    /\ CURRENT_WS = "None"
    /\ ws_pc = "start"
    /\ backoff = BACKOFF_BASE
    /\ had_health = FALSE
    /\ ws_sent = <<>>
    /\ wait = 0
    /\ put_job = NoJob
    /\ put_rest = NoRest
    /\ log_next = NoLog
    /\ ws_out = <<>>
    /\ worker_pc = "loop"
    /\ job = NoCurrentJob
    /\ sent = <<>>
    /\ status = 0
    /\ log_last = ""
    /\ ext_cum = 0
    /\ ext_state = "open"
    /\ wire = <<>>
    /\ enq_total = 0
    /\ calc_in = 0
    /\ calc_out = <<>>

\* The whole system: both threads, shutdown and reconnects.
Init ==
    /\ Config(8, {"BTCUSD"}, "limit_order", "IOC", TRUE, FALSE)
    /\ ut_stream = FALSE
    /\ ~VERBOSE_DECISIONS
    /\ session_topup_used = <<>>
    /\ InitState

Next ==
    \/ OnMessage
    \/ HandleNextEvent
    \/ QueuePut
    \/ LogDecision
    \/ OnEcho
    \/ WorkerLoop
    \/ WorkerGet
    \/ RestReturn
    \/ RestReturn2
    \/ WorkerResult
    \/ _handle_sig
    \/ shutdown
    \/ shutdown_set
    \/ shutdown_log_start
    \/ shutdown_stop
    \/ shutdown_sentinel
    \/ shutdown_close
    \/ shutdown_log_sent
    \/ WsSessionEnd
    \/ WsStopCheck
    \/ WsReconnectWait
    \/ WsSessionStart
    \/ on_open
    \/ ws_send
    \/ main_finally
    \/ main_join
    \/ main_atexit

Spec == Init /\ [][Next]_vars

\* The whole system under the limit-order configuration (every step of the
\* worker occurs in it), with the worker thread scheduled fairly: a step of
\* order_worker that can be taken is eventually taken (rest_post returns,
\* the backoff sleep ends; order_q.get() returns when the queue holds an
\* item and its mutex, which the main thread holds only for moments, is
\* free again and again), and every call of shutdown goes on to its end
\* unless it waits for a lock that the code it interrupted holds (signals
\* do not arrive so fast for ever that a call they interrupt makes no step).
InitLive ==
    /\ Config(8, {"BTCUSD"}, "limit_order", "IOC", TRUE, FALSE)
    /\ ut_stream = FALSE
    /\ ~VERBOSE_DECISIONS
    /\ session_topup_used = <<>>
    /\ InitState

\* the frames of that specification: jobs of the largest size
LiveFrames ==
    { [type |-> "user_trades", payload |-> [BaseTrade EXCEPT !.size = <<MaxQty>>]] }

OnLiveMessage ==
    /\ \E frame \in LiveFrames : on_message(frame)
    /\ UNCHANGED envvars

NextLive ==
    \/ OnLiveMessage
    \/ QueuePut
    \/ LogDecision
    \/ OnEcho
    \/ WorkerLoop
    \/ WorkerGet
    \/ RestReturn
    \/ RestReturn2
    \/ WorkerResult
    \/ _handle_sig
    \/ shutdown
    \/ shutdown_set
    \/ shutdown_log_start
    \/ shutdown_stop
    \/ shutdown_sentinel
    \/ shutdown_close
    \/ shutdown_log_sent
    \/ WsSessionEnd
    \/ WsStopCheck
    \/ WsReconnectWait
    \/ WsSessionStart
    \/ on_open
    \/ ws_send
    \/ main_finally
    \/ main_join
    \/ main_atexit

\* a step of the innermost call of shutdown
ShutdownStep ==
    \/ shutdown
    \/ shutdown_set
    \/ shutdown_log_start
    \/ shutdown_stop
    \/ shutdown_sentinel
    \/ shutdown_close
    \/ shutdown_log_sent

SpecLive ==
    /\ InitLive
    /\ [][NextLive]_vars
    /\ WF_vars(WorkerLoop)
    /\ SF_vars(WorkerGet)
    /\ WF_vars(RestReturn)
    /\ WF_vars(RestReturn2)
    /\ WF_vars(WorkerResult)
    /\ \A n \in 1..MaxSignals : SF_vars(ShutdownStep /\ Len(shutdown_pc) = n)

\* The ingestion thread and the worker, on trade fills that give jobs of
\* every size from one contract to MaxQty, alone and two in a frame: the
\* ledger of the symbol takes every value up to MAX_TOPUP_PER_SYMBOL, and
\* jobs that were admitted against an earlier ledger come to the worker.
CapFrames ==
    { [type |-> "user_trades", payload |-> [BaseTrade EXCEPT !.size = q]] :
        q \in PosQtys }
    \cup { [type |-> "user_trades",
            events |-> << BaseTrade, [BaseTrade EXCEPT !.size = <<MaxQty>>] >>] }

OnCapMessage ==
    /\ \E frame \in CapFrames : on_message(frame)
    /\ UNCHANGED envvars

InitCap ==
    /\ Config(8, {"BTCUSD"}, "limit_order", "IOC", TRUE, FALSE)
    /\ ut_stream = FALSE
    /\ ~VERBOSE_DECISIONS
    /\ session_topup_used = <<>>
    /\ InitState

NextCap ==
    \/ WsSessionStart
    \/ on_open
    \/ ws_send
    \/ OnCapMessage
    \/ HandleNextEvent
    \/ QueuePut
    \/ LogDecision
    \/ WorkerLoop
    \/ WorkerGet
    \/ RestReturn
    \/ RestReturn2
    \/ WorkerResult

SpecCap == InitCap /\ [][NextCap]_vars

\* The ingestion thread alone, on many kinds of event.  Under the multiplier
\* 1.5 it also starts from a ledger the worker has left behind.  The
\* configuration that admits every symbol runs without decision logs.
InitIngest ==
    /\ \/ /\ Config(4, {"BTCUSD"}, "market_order", "IOC", TRUE, FALSE)
          /\ VERBOSE_DECISIONS
          /\ session_topup_used = <<>>
       \/ /\ Config(6, {"BTCUSD"}, "market_order", "IOC", TRUE, FALSE)
          /\ VERBOSE_DECISIONS
          /\ session_topup_used \in
                { <<>>, [s \in {"BTCUSD"} |-> MAX_TOPUP_PER_SYMBOL - 1] }
       \/ /\ Config(8, {"ALL"}, "market_order", "IOC", TRUE, FALSE)
          /\ ~VERBOSE_DECISIONS
          /\ session_topup_used = <<>>
       \/ /\ Config(12, {"BTCUSD"}, "market_order", "IOC", TRUE, FALSE)
          /\ VERBOSE_DECISIONS
          /\ session_topup_used = <<>>
    /\ ut_stream = FALSE
    /\ InitState

NextIngest ==
    \/ WsSessionStart
    \/ on_open
    \/ ws_send
    \/ OnMessageAny
    \/ QueuePut
    \/ LogDecision
    \/ RewriteSeen

SpecIngest == InitIngest /\ [][NextIngest]_vars

\* One external order filled by the exchange, its frames and the frames
\* about the worker's own orders, and both threads.
InitFills ==
    /\ \/ Config(8, {"ALL"}, "market_order", "IOC", TRUE, FALSE)
       \/ Config(8, {"BTCUSD"}, "limit_order", "IOC", TRUE, FALSE)
    /\ ut_stream \in BOOLEAN
    /\ VERBOSE_DECISIONS
    /\ session_topup_used = <<>>
    /\ InitState

NextFills ==
    \/ WsSessionStart
    \/ on_open
    \/ ws_send
    \/ ExchangeFill
    \/ ExchangeClose
    \/ Deliver
    \/ OnEcho
    \/ ExchangePut
    \/ LogDecision
    \/ RewriteSeen
    \/ WorkerLoop
    \/ WorkerGet
    \/ RestReturn
    \/ RestReturn2
    \/ WorkerResult

SpecFills == InitFills /\ [][NextFills]_vars

\* The ingestion thread over a sequence of sessions without shutdown, over
\* backoff settings (non-negative durations): trade and order events with
\* identifiers, frames of other types, authentication successes, heartbeats
\* and unparseable text.  The worker does not run: once the queue is full
\* the thread stays blocked in order_q.put.
ConnFrames ==
    { [type |-> "user_trades",
       payload |-> [BaseTrade EXCEPT !.fill_id = "F1", !.id = "T1"]],
      [type |-> "usertrades", payload |-> BaseTrade],
      [type |-> "orders", payload |-> [BaseOrder EXCEPT !.fill_id = "F2"]] }
    \cup TradeListFrames \cup OrderListFrames
    \cup OtherFrames \cup ControlFrames

OnConnMessage ==
    /\ \E frame \in ConnFrames : on_message(frame)
    /\ UNCHANGED envvars

InitConn ==
    /\ VERBOSE_DECISIONS = FALSE
    /\ MAX_TOPUP_PER_TRADE = 3
    /\ BACKOFF_BASE \in 0..MaxBackoffBase
    /\ BACKOFF_MAX \in 0..MaxBackoffMax
    /\ BACKOFF_JITTER \in 0..MaxJitter
    /\ HTTP_RETRIES = 3
    /\ USER_MULTIPLIER = 8
    /\ ALLOW_SYMBOLS = {"BTCUSD"}
    /\ ORDER_TYPE = "market_order"
    /\ TIF = "IOC"
    /\ LIMIT_IOC_FALLBACK_MARKET = TRUE
    /\ DRY_RUN = FALSE
    /\ ut_stream = FALSE
    /\ session_topup_used = <<>>
    /\ InitState

NextConn ==
    \/ OnConnMessage
    \/ HandleNextEvent
    \/ QueuePut
    \/ LogDecision
    \/ subscribe
    \/ ws_send
    \/ WsSessionEnd
    \/ WsStopCheck
    \/ WsReconnectWait
    \/ WsSessionStart
    \/ on_open

SpecConn == InitConn /\ [][NextConn]_vars

\* The two dedup stores alone: frames on both channels that carry one of
\* MaxIds fill identifiers and, on user_trades, one of MaxIds trade
\* identifiers, all self-tagged (they are skipped after the stores are
\* written, so the queue stays empty), and the expiry of entries.
DedupFrames ==
    { [type |-> "user_trades",
       payload |-> [BaseTrade EXCEPT !.fill_id = FillNames[i], !.id = TradeNames[k],
                                     !.client_order_id = TagOurs]] :
        i \in 1..MaxIds, k \in 1..MaxIds }
    \cup { [type |-> "orders",
            payload |-> [BaseOrder EXCEPT !.fill_id = FillNames[i],
                                          !.client_order_id = TagOurs]] :
             i \in 1..MaxIds }

OnDedupMessage ==
    /\ \E frame \in DedupFrames : on_message(frame)
    /\ UNCHANGED envvars

ExpireFillId ==
    /\ seen_fill_ids # <<>>
    /\ seen_fill_ids' = CacheExpire(seen_fill_ids)
    /\ UNCHANGED <<cfgvars, connvars, seen_trade_ids, order_fill_cum,
                   session_topup_used, order_q, STOP_EVENT, SHUTDOWN_ONCE, shutdown_pc,
                   CURRENT_WS, ws_pc, put_job, put_rest, log_next, ws_out, workervars, log_last, envvars>>

ExpireTradeId ==
    /\ seen_trade_ids # <<>>
    /\ seen_trade_ids' = CacheExpire(seen_trade_ids)
    /\ UNCHANGED <<cfgvars, connvars, seen_fill_ids, order_fill_cum,
                   session_topup_used, order_q, STOP_EVENT, SHUTDOWN_ONCE, shutdown_pc,
                   CURRENT_WS, ws_pc, put_job, put_rest, log_next, ws_out, workervars, log_last, envvars>>

InitDedup ==
    /\ Config(8, {"BTCUSD"}, "market_order", "IOC", TRUE, FALSE)
    /\ ut_stream = FALSE
    /\ session_topup_used = <<>>
    /\ InitState

NextDedup ==
    \/ WsSessionStart
    \/ on_open
    \/ ws_send
    \/ OnDedupMessage
    \/ LogDecision
    \/ RewriteSeen
    \/ ExpireFillId
    \/ ExpireTradeId

SpecDedup == InitDedup /\ [][NextDedup]_vars

\* The worker thread alone, over every combination of order type, time in
\* force, fallback switch and dry run, from a queue the ingestion thread has
\* filled: jobs of one or three contracts, with the side buy or without
\* side (_extract_side gave None), with a price, without one or with one
\* that is not a number, and the sentinel.
QueuedJobs ==
    { [symbol |-> "BTCUSD", side |-> d, size |-> n, price |-> p] :
        d \in {"buy", ""}, n \in {1, 3}, p \in {"100", "", "abc"} }

QueuedItems == { <<j>> : j \in QueuedJobs } \cup { NoJob }

InitWorker ==
    /\ VERBOSE_DECISIONS = FALSE
    /\ MAX_TOPUP_PER_TRADE = 3
    /\ BACKOFF_BASE = 1
    /\ BACKOFF_MAX = 1
    /\ BACKOFF_JITTER = 0
    /\ HTTP_RETRIES = 3
    /\ USER_MULTIPLIER = 8
    /\ ALLOW_SYMBOLS = {"BTCUSD"}
    /\ ORDER_TYPE \in {"market_order", "limit_order"}
    /\ TIF \in {"IOC", "GTC"}
    /\ LIMIT_IOC_FALLBACK_MARKET \in BOOLEAN
    /\ DRY_RUN \in BOOLEAN
    /\ ut_stream = FALSE
    /\ session_topup_used = <<>>
    /\ seen_fill_ids = <<>>
    /\ seen_trade_ids = <<>>
    /\ order_fill_cum = <<>>
    /\ order_q \in UNION { [1..n -> QueuedItems] : n \in 0..QueueMax }
    /\ STOP_EVENT = FALSE
    /\ SHUTDOWN_ONCE = FALSE
    /\ shutdown_pc = <<>>
    /\ CURRENT_WS = "open"
    /\ ws_pc = "run_forever"
    /\ backoff = BACKOFF_BASE
    /\ had_health = FALSE
    /\ ws_sent = AuthFrames
    /\ wait = 0
    /\ put_job = NoJob
    /\ put_rest = NoRest
    /\ log_next = NoLog
    /\ ws_out = <<>>
    /\ worker_pc = "loop"
    /\ job = NoCurrentJob
    /\ sent = <<>>
    /\ status = 0
    /\ log_last = IF \E i \in 1..Len(order_q) : order_q[i] # NoJob
                  THEN "enqueue_topup" ELSE "auth_send"
    /\ ext_cum = 0
    /\ ext_state = "open"
    /\ wire = <<>>
    /\ enq_total = 0
    /\ calc_in = 0
    /\ calc_out = <<>>

NextWorker ==
    \/ WorkerLoop
    \/ WorkerGet
    \/ RestReturn
    \/ RestReturn2
    \/ WorkerResult

SpecWorker == InitWorker /\ [][NextWorker]_vars

\* rest_post alone, over HTTP_RETRIES and every sequence of outcomes of
\* MaxRetries + 1 attempts.
HttpStatuses == {200, 404, 429, 500, 599, 600}

HttpOutcomes ==
    { [exc |-> FALSE, status |-> st, text |-> "body"] : st \in HttpStatuses }
    \cup { [exc |-> TRUE, status |-> 0, text |-> "timed out"] }

InitRest ==
    /\ VERBOSE_DECISIONS = FALSE
    /\ MAX_TOPUP_PER_TRADE = 3
    /\ BACKOFF_BASE = 1
    /\ BACKOFF_MAX = 1
    /\ BACKOFF_JITTER = 0
    /\ HTTP_RETRIES \in 0..MaxRetries
    /\ USER_MULTIPLIER = 8
    /\ ALLOW_SYMBOLS = {"BTCUSD"}
    /\ ORDER_TYPE = "market_order"
    /\ TIF = "IOC"
    /\ LIMIT_IOC_FALLBACK_MARKET = TRUE
    /\ DRY_RUN = FALSE
    /\ ut_stream = FALSE
    /\ session_topup_used = <<>>
    /\ seen_fill_ids = <<>>
    /\ seen_trade_ids = <<>>
    /\ order_fill_cum = <<>>
    /\ order_q = <<>>
    /\ STOP_EVENT = FALSE
    /\ SHUTDOWN_ONCE = FALSE
    /\ shutdown_pc = <<>>
    /\ CURRENT_WS = "None"
    /\ ws_pc = "start"
    /\ backoff = BACKOFF_BASE
    /\ had_health = FALSE
    /\ ws_sent = <<>>
    /\ wait = 0
    /\ put_job = NoJob
    /\ put_rest = NoRest
    /\ log_next = NoLog
    /\ ws_out = <<>>
    /\ worker_pc = "loop"
    /\ job = NoCurrentJob
    /\ sent = <<>>
    /\ status = 0
    /\ log_last = ""
    /\ ext_cum = 0
    /\ ext_state = "open"
    /\ wire = <<>>
    /\ enq_total = 0
    /\ calc_in = <<>>
    /\ calc_out = <<>>

CallRestPost ==
    /\ calc_out = <<>>
    /\ \E outs \in [1..(MaxRetries + 1) -> HttpOutcomes] :
          /\ calc_in' = outs
          /\ calc_out' = <<rest_post(outs)>>
    /\ UNCHANGED <<cfgvars, connvars, dedupvars, session_topup_used, order_q, STOP_EVENT,
                   SHUTDOWN_ONCE, shutdown_pc, CURRENT_WS, ws_pc, put_job, put_rest, log_next, ws_out, workervars, log_last,
                   ext_cum, ext_state, ut_stream, wire, enq_total>>

NextRest == CallRestPost

SpecRest == InitRest /\ [][NextRest]_vars

\* compute_topup_size alone, over multipliers, quantities and per-trade caps.
InitSizing ==
    /\ USER_MULTIPLIER \in 0..MaxMult
    /\ MAX_TOPUP_PER_TRADE \in {0, 3, 1000000}
    /\ BACKOFF_BASE = 1
    /\ BACKOFF_MAX = 1
    /\ BACKOFF_JITTER = 0
    /\ HTTP_RETRIES = 3
    /\ calc_in \in (-MaxFill)..MaxFill
    /\ calc_out = <<>>
    /\ ALLOW_SYMBOLS = {"ALL"}
    /\ ORDER_TYPE = "market_order"
    /\ TIF = "IOC"
    /\ LIMIT_IOC_FALLBACK_MARKET = TRUE
    /\ DRY_RUN = FALSE
    /\ VERBOSE_DECISIONS = TRUE
    /\ ut_stream = FALSE
    /\ session_topup_used = <<>>
    /\ seen_fill_ids = <<>>
    /\ seen_trade_ids = <<>>
    /\ order_fill_cum = <<>>
    /\ order_q = <<>>
    /\ STOP_EVENT = FALSE
    /\ SHUTDOWN_ONCE = FALSE
    /\ shutdown_pc = <<>>
    /\ CURRENT_WS = "None"
    /\ ws_pc = "start"
    /\ backoff = BACKOFF_BASE
    /\ had_health = FALSE
    /\ ws_sent = <<>>
    /\ wait = 0
    /\ put_job = NoJob
    /\ put_rest = NoRest
    /\ log_next = NoLog
    /\ ws_out = <<>>
    /\ worker_pc = "loop"
    /\ job = NoCurrentJob
    /\ sent = <<>>
    /\ status = 0
    /\ log_last = ""
    /\ ext_cum = 0
    /\ ext_state = "open"
    /\ wire = <<>>
    /\ enq_total = 0

CallComputeTopupSize ==
    /\ calc_out = <<>>
    /\ calc_out' = <<compute_topup_size(calc_in)>>
    /\ UNCHANGED <<cfgvars, connvars, dedupvars, session_topup_used, order_q, STOP_EVENT,
                   SHUTDOWN_ONCE, shutdown_pc, CURRENT_WS, ws_pc, put_job, put_rest, log_next, ws_out, workervars, log_last,
                   ext_cum, ext_state, ut_stream, wire, enq_total, calc_in>>

NextSizing == CallComputeTopupSize

SpecSizing == InitSizing /\ [][NextSizing]_vars

----------------------------------------------------------------------------
(* Properties.                                                             *)

\* the tag begins with the self-tag prefix
StartsWithSelfTag(t) ==
    /\ Len(t) >= Len(SELF_TAG_PREFIX)
    /\ \A i \in 1..Len(SELF_TAG_PREFIX) : t[i] = SELF_TAG_PREFIX[i]

\* the tag of an event: its client_order_id, else its client_id, else its text
EventTag(ev) ==
    IF ev.client_order_id # <<>> THEN ev.client_order_id
    ELSE IF ev.client_id # <<>> THEN ev.client_id
    ELSE ev.text

SelfTagged(ev) == StartsWithSelfTag(EventTag(ev)) \/ StartsWithSelfTag(ev.text)

\* one of the three tags of the event begins with the self-tag prefix
AnyTagSelf(ev) ==
    \/ StartsWithSelfTag(ev.client_order_id)
    \/ StartsWithSelfTag(ev.client_id)
    \/ StartsWithSelfTag(ev.text)

IsEvent(frame) == frame.type \in {"user_trades", "orders"}

\* handling the frame makes a job and goes on to put it on the queue
Enqueues(frame) ==
    on_message(frame) /\ (order_q' # order_q \/ put_job' # put_job)

\* the user_trades and orders frames whose event is self-tagged
SelfTaggedFrames ==
    { frame \in Frames : IsEvent(frame) /\ SelfTagged(frame.payload) }

\* the user_trades and orders frames whose event carries the self-tag
\* prefix in one of its three tags
AnyTagSelfFrames ==
    { frame \in Frames : IsEvent(frame) /\ AnyTagSelf(frame.payload) }

\* C1 as stated: in every reachable state in which the ingestion thread
\* receives frames, handling a user_trades or orders event whose
\* client_order_id, client_id or text begins with the self-tag prefix
\* enqueues no job, whatever its symbol, side, quantity, identifiers and
\* order state.
C1_SelfFilterAnyTag ==
    ws_pc = "run_forever" =>
        \A frame \in AnyTagSelfFrames : ~ENABLED Enqueues(frame)

\* C1 amended: in every reachable state in which the ingestion thread
\* receives frames, handling a user_trades or orders event whose tag (its
\* client_order_id, else, when that is empty, its client_id, else its
\* text) or whose text begins with the self-tag prefix enqueues no job,
\* whatever its symbol, side, quantity, identifiers and order state.  A
\* client_id is read only when the client_order_id is empty.
C1_SelfFilter ==
    ws_pc = "run_forever" =>
        \A frame \in SelfTaggedFrames : ~ENABLED Enqueues(frame)

\* C1 witness: a self-tagged fill was skipped after other events had put
\* jobs on the queue and recorded identifiers.
C1_Witness ==
    /\ log_last \in {"own_fill", "own_order_update"}
    /\ order_q # <<>>
    /\ seen_fill_ids # <<>>

\* C2: every request body the worker has sent, the primary order and the
\* market order of the IOC fallback alike, carries a client_order_id that
\* begins with the self-tag prefix, and in every reachable state handling the
\* exchange's report of a fill or an update of such an order enqueues no job.
C2_NoFeedbackLoop ==
    /\ \A i \in 1..Len(sent) : StartsWithSelfTag(sent[i].client_order_id)
    /\ \A i \in 1..Len(sent) :
          \A frame \in EchoFrames(sent[i]) : ~ENABLED Enqueues(frame)

\* C2 witness: the worker has sent a limit order and the fallback market
\* order under two different tags, and a report about one of them was skipped.
C2_Witness ==
    /\ Len(sent) = 2
    /\ sent[1].order_type = "limit_order"
    /\ sent[2].order_type = "market_order"
    /\ sent[1].client_order_id # sent[2].client_order_id
    /\ log_last \in {"own_fill", "own_order_update"}

\* the event carries a fill identifier the fill cache holds
RecordedFill(frame) ==
    /\ IsEvent(frame)
    /\ frame.payload.fill_id # ""
    /\ frame.payload.fill_id \in Range(seen_fill_ids)

\* the trade event carries a trade identifier the trade cache holds
RecordedTrade(frame) ==
    /\ frame.type = "user_trades"
    /\ frame.payload.id # ""
    /\ frame.payload.id \in Range(seen_trade_ids)

\* handling the frame changes the queue or the cap ledger
TouchesQueueOrLedger(frame) ==
    /\ on_message(frame)
    /\ \/ order_q' # order_q
       \/ put_job' # put_job
       \/ session_topup_used' # session_topup_used

\* handling the frame leaves its fill identifier out of the fill cache
ForgetsFill(frame) ==
    on_message(frame) /\ frame.payload.fill_id \notin Range(seen_fill_ids')

\* the user_trades and orders frames whose event carries a fill identifier
FillFrames ==
    { frame \in Frames : IsEvent(frame) /\ frame.payload.fill_id # "" }

\* C3: in every reachable state in which the ingestion thread receives
\* frames, an event that carries a fill identifier held by the fill cache
\* (on either channel) or a trade identifier held by the trade cache is
\* skipped and changes neither the queue nor the cap ledger; and handling
\* any event with a non-empty fill identifier leaves that identifier in the
\* cache, so that the second delivery of an event adds nothing to the one
\* job of the first.
C3_DedupIdempotence ==
    ws_pc = "run_forever" =>
        /\ \A frame \in Frames :
              (RecordedFill(frame) \/ RecordedTrade(frame))
                  => ~ENABLED TouchesQueueOrLedger(frame)
        /\ \A frame \in FillFrames : ~ENABLED ForgetsFill(frame)

\* C3 witness: fill F1 was delivered, put one job on the queue, and was
\* delivered again and skipped.
C3_Witness ==
    /\ log_last = "dup_fill_id"
    /\ seen_fill_ids = <<"F1">>
    /\ seen_trade_ids = <<>>
    /\ order_fill_cum = <<>>
    /\ Len(order_q) = 1

\* the queue item is the sentinel or a job of an admissible size
JobSizeOk(item) ==
    item = NoJob \/ (1 <= item[1].size /\ item[1].size <= MAX_TOPUP_PER_TRADE)

\* C7: every job on the order queue, and the job a blocked put is about to
\* add, has 1 <= size <= MAX_TOPUP_PER_TRADE, whether it was made from a
\* trade fill or from the delta of an order update.
C7_JobSizeBound ==
    /\ \A i \in 1..Len(order_q) : JobSizeOk(order_q[i])
    /\ JobSizeOk(put_job)

\* C7 witness: a queued job has the per-trade maximum as its size although
\* the multiplier and the largest fill quantity give a larger product.
C7_Witness ==
    /\ (USER_MULTIPLIER - MultDen) * MaxQty > MultDen * MAX_TOPUP_PER_TRADE
    /\ \E i \in 1..Len(order_q) :
          order_q[i] # NoJob /\ order_q[i][1].size = MAX_TOPUP_PER_TRADE

\* neither cap can bind on a top-up for the external order
CapsNotBinding ==
    /\ (USER_MULTIPLIER - MultDen) * OrderSize <= MultDen * MAX_TOPUP_PER_TRADE
    /\ MultDen * Used("BTCUSD") + (USER_MULTIPLIER - MultDen) * OrderSize
          <= MultDen * MAX_TOPUP_PER_SYMBOL

\* C4: with the exchange reporting each fill of the external order on both
\* channels and the caps not binding, once every frame sent so far has been
\* handled the sizes of the jobs enqueued for the order add up to
\* (multiplier - 1) times its filled quantity.
C4_ProportionalReplication ==
    (ut_stream /\ wire = <<>> /\ ws_pc = "run_forever" /\ CapsNotBinding)
        => MultDen * enq_total = (USER_MULTIPLIER - MultDen) * ext_cum

\* the worker is inside place_order_topup for the job it dequeued, or has
\* its result
Submitting == worker_pc \in {"http", "http2", "result"}

\* the worker takes the head of the queue and does not drop it
WorkerAdmitsHead == WorkerGet /\ worker_pc' # "loop"

\* the worker can take the head of the queue, a job with a symbol that
\* passes the worker's checks of size and side
HeadIsSoundJob ==
    /\ worker_pc = "get"
    /\ ~mutex_held
    /\ order_q # <<>>
    /\ Head(order_q) # NoJob
    /\ Head(order_q)[1].symbol # ""
    /\ Head(order_q)[1].size > 0
    /\ Head(order_q)[1].side \in {"buy", "sell"}

\* C5: in every reachable state of the ingestion thread interleaved with
\* the worker, the ledger of every symbol is at most MAX_TOPUP_PER_SYMBOL;
\* while the worker submits a job, ledger + size of its symbol is within the
\* maximum; and the worker admits the job at the head of the queue exactly
\* when ledger + size <= MAX_TOPUP_PER_SYMBOL at that moment.
C5_SymbolCapCeiling ==
    /\ \A s \in DOMAIN session_topup_used :
          session_topup_used[s] <= MAX_TOPUP_PER_SYMBOL
    /\ (Submitting /\ job.symbol # "")
          => Used(job.symbol) + job.size <= MAX_TOPUP_PER_SYMBOL
    /\ HeadIsSoundJob
          => (ENABLED WorkerAdmitsHead
                <=> Used(Head(order_q)[1].symbol) + Head(order_q)[1].size
                      <= MAX_TOPUP_PER_SYMBOL)

\* C5 witness: the ledger of BTCUSD has reached the maximum exactly, and a
\* job of one contract for BTCUSD that the ingestion thread admitted against
\* the earlier ledger is at the head of the queue: ledger + size is one
\* more than the maximum, and the worker is about to drop the job.
C5_Witness ==
    /\ Used("BTCUSD") = MAX_TOPUP_PER_SYMBOL
    /\ HeadIsSoundJob
    /\ Head(order_q)[1].symbol = "BTCUSD"
    /\ Head(order_q)[1].size = 1

\* C6: in every step the ledger of no symbol decreases, and a step that
\* changes the ledger is the worker's step after a submission that returned
\* 200: it adds exactly the size of the worker's job to the ledger of the
\* job's symbol and leaves every other symbol as it was.
C6_LedgerMonotone ==
    [][ /\ \A s \in DOMAIN session_topup_used :
              /\ s \in DOMAIN session_topup_used'
              /\ session_topup_used'[s] >= session_topup_used[s]
        /\ session_topup_used' # session_topup_used
              => /\ worker_pc = "result"
                 /\ worker_pc' = "loop"
                 /\ status = 200
                 /\ job.symbol # ""
                 /\ DOMAIN session_topup_used'
                       = DOMAIN session_topup_used \cup {job.symbol}
                 /\ session_topup_used'[job.symbol]
                       = Used(job.symbol) + job.size
                 /\ \A s \in DOMAIN session_topup_used \ {job.symbol} :
                       session_topup_used'[s] = session_topup_used[s]
      ]_vars

\* C6 witness: the ledger holds the top-ups of earlier jobs, the last
\* submission failed, shutdown has run and the socket loop has reconnected.
C6_Witness ==
    /\ Used("BTCUSD") > 0
    /\ status = 500
    /\ worker_pc = "done"
    /\ STOP_EVENT
    /\ ws_pc = "run_forever"
    /\ CURRENT_WS = "open"

Abs(x) == IF x >= 0 THEN x ELSE -x

Clamp(x) == Max(0, Min(x, MAX_TOPUP_PER_TRADE))

\* (multiplier - 1) * filled_qty, as a numerator over MultDen
Product == (USER_MULTIPLIER - MultDen) * calc_in

\* k is an integer nearest to n/d, and the even one when n/d lies half-way
\* between two integers
NearestTiesToEven(k, n, d) ==
    /\ 2 * Abs(d * k - n) <= d
    /\ 2 * Abs(d * k - n) = d => k % 2 = 0

\* C8 as stated, with round() read as rounding half-way cases upwards:
\* compute_topup_size(q) is round((m-1)*q) clamped to
\* [0, MAX_TOPUP_PER_TRADE], and 0 when m <= 1.0.
C8_SizingRoundHalfUp ==
    calc_out # <<>>
        => calc_out[1] = IF USER_MULTIPLIER <= MultDen THEN 0
                         ELSE Clamp(round_half_up(Product, MultDen))

\* C8, amended: compute_topup_size(q) is 0 when m <= 1.0, and otherwise the
\* integer nearest to (m-1)*q, the even one of the two when (m-1)*q lies
\* half-way between them, clamped to [0, MAX_TOPUP_PER_TRADE]; m = 2.0,
\* q = 100 gives 100 and m = 1.5, q = 10 gives 5 when the per-trade maximum
\* allows them.
C8_SizingTiesToEven ==
    calc_out # <<>>
        => /\ USER_MULTIPLIER <= MultDen => calc_out[1] = 0
           /\ USER_MULTIPLIER > MultDen
                 => \E k \in {Product \div MultDen, Product \div MultDen + 1} :
                       /\ NearestTiesToEven(k, Product, MultDen)
                       /\ calc_out[1] = Clamp(k)
           /\ (USER_MULTIPLIER = 2 * MultDen /\ calc_in = 100
                  /\ MAX_TOPUP_PER_TRADE >= 100) => calc_out[1] = 100
           /\ (2 * USER_MULTIPLIER = 3 * MultDen /\ calc_in = 10
                  /\ MAX_TOPUP_PER_TRADE >= 5) => calc_out[1] = 5

\* C8 witness: m = 1.5 and q = 5, where (m-1)*q = 2.5 lies half-way and the
\* result is 2.
C8_Witness ==
    /\ 2 * USER_MULTIPLIER = 3 * MultDen
    /\ calc_in = 5
    /\ MAX_TOPUP_PER_TRADE > 3
    /\ calc_out = <<2>>

\* C9: with the exchange reporting the fills of the external order on the
\* orders channel only (cumulative filled sizes that never decrease, the last
\* update possibly closing the order or reporting nothing unfilled) and the
\* caps not binding, once every update sent so far has been handled the
\* sizes of the jobs enqueued add up to (multiplier - 1) times the order's
\* cumulative filled size: each update contributed only its increase.
C9_OrderUpdateDelta ==
    (~ut_stream /\ wire = <<>> /\ ws_pc = "run_forever" /\ CapsNotBinding)
        => MultDen * enq_total = (USER_MULTIPLIER - MultDen) * ext_cum

\* C10: once the update that reported the external order closed, or with
\* nothing unfilled, has been handled, order_fill_cum holds no entry for
\* the order.
C10_TerminalCleanup ==
    (wire = <<>> /\ ws_pc = "run_forever"
        /\ (ext_state = "closed" \/ ext_cum = OrderSize))
        => "O1" \notin DOMAIN order_fill_cum

\* C11: the ingestion thread is never blocked on the order queue: no put
\* of a job finds the queue full and is left waiting for room, whatever the
\* worker is doing.
C11_NonBlockingEnqueue == ~(ws_pc = "put" /\ Len(order_q) >= QueueMax)

\* C12: once shutdown has set the stop flag, run_ws_forever starts no new
\* socket session, also when shutdown arrived during the backoff sleep.
C12_NoReconnectAfterShutdown ==
    [][STOP_EVENT => ~(ws_pc # "connect" /\ ws_pc' = "connect")]_vars

\* C13: under fair scheduling of the worker thread, once shutdown has set
\* the stop flag order_worker eventually returns, whatever the queue held
\* and whatever the worker was doing when shutdown ran.
C13_WorkerTerminates == STOP_EVENT ~> worker_pc = "done"

\* C14: of all the invocations of shutdown one at most does more than
\* return: the stop flag and SHUTDOWN_ONCE stay set; a call goes on to
\* SHUTDOWN_ONCE.set() and the statements after it (the record, the stop
\* flag, the sentinel, the close of the socket) only when no call has done
\* so before it; and a sentinel is put on the queue and the socket is
\* closed only by a call that stands at that statement.  Hence no second
\* sentinel is put and the socket is not closed a second time.
C14_ShutdownIdempotent ==
    [][ /\ STOP_EVENT => STOP_EVENT'
        /\ SHUTDOWN_ONCE => SHUTDOWN_ONCE'
        /\ (ShutdownAt("set") /\ shutdown_pc' = Goto("log_start")) => ~SHUTDOWN_ONCE
        /\ (Len(order_q') > Len(order_q) /\ order_q'[Len(order_q')] = NoJob)
              => ShutdownAt("sentinel")
        /\ (CURRENT_WS # "closed" /\ CURRENT_WS' = "closed") => ShutdownAt("close")
      ]_vars

----------------------------------------------------------------------------
\* C15: over any sequence of sessions without shutdown, when a session ends
\* the next backoff is BACKOFF_BASE if the session saw an authentication
\* success or a heartbeat and min(2 * previous backoff, BACKOFF_MAX)
\* otherwise; with BACKOFF_BASE <= BACKOFF_MAX the backoff always lies in
\* [BACKOFF_BASE, BACKOFF_MAX]; and the wait of a backoff sleep is at least
\* the backoff and at most backoff * (1 + BACKOFF_JITTER).
SessionEnds == ws_pc = "check" /\ ws_pc' = "log_wait"

BackoffRule ==
    SessionEnds =>
        backoff' = IF had_health THEN BACKOFF_BASE
                   ELSE Min(2 * backoff, BACKOFF_MAX)

BackoffInRange ==
    BACKOFF_BASE <= BACKOFF_MAX =>
        (BACKOFF_BASE <= backoff /\ backoff <= BACKOFF_MAX)

WaitInRange ==
    ws_pc \in {"log_wait", "sleep"} =>
        /\ backoff * JitterDen <= wait
        /\ wait <= backoff * (JitterDen + BACKOFF_JITTER)

C15_ReconnectBackoff ==
    /\ [](BackoffInRange /\ WaitInRange)
    /\ [][BackoffRule]_vars

\* a sleep after the backoff was doubled more than once and capped, with the
\* largest jitter
C15_Witness ==
    /\ ws_pc = "sleep"
    /\ 0 < BACKOFF_BASE
    /\ 2 * BACKOFF_BASE < BACKOFF_MAX
    /\ backoff = BACKOFF_MAX
    /\ 0 < BACKOFF_JITTER
    /\ wait = backoff * (JitterDen + BACKOFF_JITTER)
    /\ order_q # <<>>

----------------------------------------------------------------------------
\* C16: when the first submission of place_order_topup is a limit_order with
\* time in force ioc, it returns status 200 with state cancelled and
\* cancellation reason order_size_not_available_in_orderbook, and the fallback
\* is enabled, place_order_topup makes exactly one further submission: a
\* market_order without limit price, with the same side and size and a new
\* self-tagged client_order_id different from the first, and it returns the
\* status of that second submission; in every other case it makes no second
\* submission and returns the status of the first.
FallbackCase(out) ==
    /\ sent[1].order_type = "limit_order"
    /\ sent[1].time_in_force = "ioc"
    /\ out.status = 200
    /\ out.state = "cancelled"
    /\ out.cancellation_reason = NoDepth
    /\ LIMIT_IOC_FALLBACK_MARKET

SecondSubmission ==
    /\ worker_pc' = "http2"
    /\ Len(sent') = 2
    /\ sent'[1] = sent[1]
    /\ sent'[2].order_type = "market_order"
    /\ sent'[2].limit_price = ""
    /\ sent'[2].side = sent[1].side
    /\ sent'[2].size = sent[1].size
    /\ StartsWithSelfTag(sent'[2].client_order_id)
    /\ sent'[2].client_order_id # sent[1].client_order_id

Returns(out) ==
    /\ worker_pc' = "result"
    /\ status' = out.status
    /\ sent' = sent

C16_IocFallback ==
    /\ Len(sent) <= 2
    /\ worker_pc = "http" =>
          /\ Len(sent) = 1
          /\ \A out \in RestOutcomes :
                IF FallbackCase(out)
                THEN ~ENABLED (RestReturnOn(out) /\ ~SecondSubmission)
                ELSE ~ENABLED (RestReturnOn(out) /\ ~Returns(out))
    /\ worker_pc = "http2" =>
          /\ Len(sent) = 2
          /\ \A out \in RestOutcomes : ~ENABLED (RestReturn2On(out) /\ ~Returns(out))
    /\ Len(sent) = 2 =>
          /\ sent[1].order_type = "limit_order"
          /\ sent[1].time_in_force = "ioc"
          /\ LIMIT_IOC_FALLBACK_MARKET
          /\ sent[2].order_type = "market_order"
          /\ sent[2].limit_price = ""

\* the fallback has been submitted after an IOC limit order found no depth,
\* and its submission failed
C16_Witness ==
    /\ worker_pc = "result"
    /\ Len(sent) = 2
    /\ sent[1].order_type = "limit_order"
    /\ sent[2].order_type = "market_order"
    /\ status = 500

----------------------------------------------------------------------------
\* C17: for every sequence of HTTP outcomes rest_post ends after at most
\* max(1, HTTP_RETRIES) attempts; an attempt is followed by another only if
\* it returned 429 or 5xx or raised an exception; any other status is
\* returned right after the attempt that received it; when the last allowed
\* attempt returns 429 or 5xx that status is returned, and when it raises
\* the result is status 0 with the error text.
Transient(o) == o.exc \/ o.status = 429 \/ o.status \in 500..599

AttemptLimit == Max(1, HTTP_RETRIES)

C17_BoundedRetry ==
    calc_out # <<>> =>
        LET r == calc_out[1]
            n == r.attempts
            last == calc_in[n]
        IN /\ 1 <= n /\ n <= AttemptLimit
           /\ \A i \in 1..(n - 1) : Transient(calc_in[i])
           /\ ~Transient(last) => (r.status = last.status /\ r.data = last.text)
           /\ Transient(last) =>
                 /\ n = AttemptLimit
                 /\ ~last.exc => (r.status = last.status /\ r.data = last.text)
                 /\ last.exc => (r.status = 0 /\ r.data = last.text)

\* every allowed attempt was used: the first ones met 429, a 5xx and an
\* exception, the last one raised
C17_Witness ==
    /\ calc_out # <<>>
    /\ HTTP_RETRIES = MaxRetries
    /\ calc_out[1].attempts = HTTP_RETRIES
    /\ calc_out[1].status = 0
    /\ \E i \in 1..(HTTP_RETRIES - 1) : calc_in[i].status = 429
    /\ \E i \in 1..(HTTP_RETRIES - 1) : calc_in[i].exc

----------------------------------------------------------------------------
\* C18: a job is taken off the queue once, by the dequeue of the worker,
\* which removes exactly the oldest item and makes it the current job; no
\* step of the worker puts anything on the queue, neither after a failed
\* submission nor after dropping the job in the re-validation; the current
\* job changes only by a dequeue, which starts with no submission or one,
\* and the submissions made for a job are at most one, plus the one IOC
\* fallback submission, all for the side and size of that job.
DequeuesHead ==
    /\ order_q' = Tail(order_q)
    /\ IF Head(order_q) = NoJob THEN job' = job /\ sent' = sent
       ELSE job' = Head(order_q)[1] /\ Len(sent') <= 1

KeepsQueueAndJob == order_q' = order_q /\ job' = job

SubmissionsOfJob ==
    /\ Len(sent) <= 2
    /\ \A i \in 1..Len(sent) :
          sent[i].side = Lower(job.side) /\ sent[i].size = job.size
    /\ Len(sent) = 2 =>
          sent[1].order_type = "limit_order" /\ sent[2].order_type = "market_order"

C18_JobLifecycle ==
    /\ SubmissionsOfJob
    /\ ~ENABLED (WorkerGet /\ ~DequeuesHead)
    /\ ~ENABLED (WorkerLoop /\ ~KeepsQueueAndJob)
    /\ ~ENABLED (RestReturn /\ ~(KeepsQueueAndJob /\ Len(sent') <= Len(sent) + 1))
    /\ ~ENABLED (RestReturn2 /\ ~(KeepsQueueAndJob /\ sent' = sent))
    /\ ~ENABLED (WorkerResult /\ ~(KeepsQueueAndJob /\ sent' = sent))

\* after a failed submission and after a drop in the re-validation the
\* worker is back at the head of its loop, the queue holding only the items
\* behind the job
C18_Witness ==
    /\ worker_pc = "loop"
    /\ order_q = <<>>
    /\ job.side = ""
    /\ sent = <<>>
    /\ status = 500

----------------------------------------------------------------------------
\* C19: unless the allow-list contains the wildcard ALL, every job on the
\* queue, and the job a blocked put is holding, has a symbol that is on the
\* allow-list; in particular a job without symbol exists only under the
\* wildcard.
EnqueuedJobs ==
    { order_q[i][1] : i \in { k \in 1..Len(order_q) : order_q[k] # NoJob } }
    \cup (IF put_job = NoJob THEN {} ELSE { put_job[1] })

C19_SymbolAllowList ==
    "ALL" \notin ALLOW_SYMBOLS =>
        \A j \in EnqueuedJobs : j.symbol # "" /\ j.symbol \in ALLOW_SYMBOLS

\* under the allow-list {BTCUSD} a job was enqueued and the last event, for
\* another symbol or for none, was skipped
C19_Witness ==
    /\ "ALL" \notin ALLOW_SYMBOLS
    /\ \E j \in EnqueuedJobs : j.symbol = "BTCUSD"
    /\ log_last = "symbol_not_allowed"

----------------------------------------------------------------------------
\* C20: handling a frame whose type is neither a user-trades type nor orders
\* (a position update, a heartbeat, the authentication success, an unknown
\* type, unparseable text) changes neither the order queue (nor starts a
\* put), nor the cap ledger, nor seen_fill_ids, nor seen_trade_ids, nor
\* order_fill_cum.
NonReplicatingFrames == OtherFrames \cup ControlFrames

TouchesReplicationState ==
    \/ order_q' # order_q
    \/ put_job' # put_job
    \/ session_topup_used' # session_topup_used
    \/ seen_fill_ids' # seen_fill_ids
    \/ seen_trade_ids' # seen_trade_ids
    \/ order_fill_cum' # order_fill_cum

C20_NonReplicatingFrames ==
    /\ \A frame \in NonReplicatingFrames :
          /\ frame.type \notin {"usertrades", "user_trades", "orders"}
          /\ ~ENABLED (on_message(frame) /\ TouchesReplicationState)
    /\ ~ENABLED (subscribe /\ TouchesReplicationState)
    /\ ~ENABLED (ws_send /\ TouchesReplicationState)

\* a session in which a job was enqueued, both dedup sets and order_fill_cum
\* were written, and an authentication success or heartbeat was handled
C20_Witness ==
    /\ ws_pc = "run_forever"
    /\ had_health
    /\ order_q # <<>>
    /\ seen_fill_ids # <<>>
    /\ seen_trade_ids # <<>>
    /\ DOMAIN order_fill_cum # {}

----------------------------------------------------------------------------
\* C21: with DRY_RUN set no request is ever submitted, neither a primary
\* order nor a fallback; place_order_topup returns 200 for every job the
\* worker passes to it, and the worker then adds the size of the job to the
\* ledger of its symbol, as after a successful submission.
BumpsLedger == session_topup_used' = _bump_cap(job.symbol, job.size)

C21_DryRun ==
    DRY_RUN =>
        /\ sent = <<>>
        /\ worker_pc \notin {"http", "http2"}
        /\ worker_pc = "result" => status = 200
        /\ ~ENABLED (WorkerGet /\ sent' # <<>>)
        /\ ~ENABLED (WorkerResult /\ ~BumpsLedger)

\* a dry run under the limit-order configuration has counted a job without
\* price in the ledger and the worker is about to count the next one
C21_Witness ==
    /\ DRY_RUN
    /\ ORDER_TYPE = "limit_order"
    /\ worker_pc = "result"
    /\ job.price = ""
    /\ Used(job.symbol) > 0

----------------------------------------------------------------------------
\* C22: in every session nothing is sent before the socket opens; the
\* first frame sent is the authentication, sent when the socket opens
\* (on_open), and an open session has sent it; every later frame belongs to
\* a group "subscribe orders, subscribe positions, subscribe user_trades,
\* enable_heartbeat" sent in that order by the handling of an
\* authentication success of that session, and by no other frame; and once
\* a subscribe has been sent the session is marked healthy.
IsSubscribe(f) ==
    f \in {"subscribe orders", "subscribe positions", "subscribe user_trades"}

GroupFrames == << "subscribe orders", "subscribe positions",
                  "subscribe user_trades", "enable_heartbeat" >>

\* fs is the authentication followed by groups, the last perhaps in part
InOrder(fs) ==
    \A i \in 1..Len(fs) :
        fs[i] = IF i = 1 THEN "auth" ELSE GroupFrames[((i - 2) % 4) + 1]

RECURSIVE SubscribeGroups(_)
SubscribeGroups(fs) ==
    \/ fs = <<>>
    \/ /\ Len(fs) >= 4
       /\ SubSeq(fs, 1, 4) = GroupFrames
       /\ SubscribeGroups(SubSeq(fs, 5, Len(fs)))

\* the frames of the session: those sent, and those the callback that is
\* running has still to send
SessionFrames == ws_sent \o ws_out

\* the frames a callback has still to send are the authentication, or the
\* rest of one group
PendingFrames ==
    \/ ws_out = << "auth" >>
    \/ \E k \in 1..5 : ws_out = SubSeq(GroupFrames, k, 4)

\* a step that changes the record of what was sent begins a session
\* (nothing sent yet) or sends the next frame of the running callback; a
\* step that changes what a callback has to send sends its next frame
\* (which is recorded, unless MaxSent frames are), or is the callback
\* taking up frames when it has none: on_open the authentication, and the
\* handling of an authentication success one group of subscriptions,
\* leaving the session healthy
SendStep ==
    /\ ws_sent' # ws_sent =>
          \/ ws_pc \in {"start", "sleep"} /\ ws_sent' = <<>> /\ ws_out' = ws_out
          \/ /\ ws_pc = "send"
             /\ ws_out # <<>>
             /\ ws_sent' = Append(ws_sent, Head(ws_out))
             /\ ws_out' = Tail(ws_out)
    /\ ws_out' # ws_out =>
          \/ /\ ws_pc = "send"
             /\ ws_out # <<>>
             /\ ws_out' = Tail(ws_out)
             /\ \/ ws_sent' = Append(ws_sent, Head(ws_out))
                \/ Len(ws_sent) = MaxSent /\ ws_sent' = ws_sent
          \/ /\ ws_out = <<>>
             /\ ws_sent' = ws_sent
             /\ \/ ws_pc = "connect" /\ ws_sent = <<>> /\ ws_out' = << "auth" >>
                \/ /\ ws_pc = "run_forever"
                   /\ had_health'
                   /\ ws_out' = GroupFrames

ProtocolState ==
    /\ ws_pc = "connect" => SessionFrames = <<>>
    /\ ws_pc \in {"run_forever", "event", "put", "log"}
          => (ws_sent # <<>> /\ ws_out = <<>>)
    /\ ws_pc = "send" => ws_out # <<>>
    /\ ws_pc = "subscribe" => (ws_out # <<>> /\ IsSubscribe(Head(ws_out)))
    /\ PendingFrames
    /\ InOrder(ws_sent)
    /\ Len(ws_sent) < MaxSent =>
          /\ InOrder(SessionFrames)
          /\ SubscribeGroups(IF SessionFrames = <<>> THEN <<>> ELSE Tail(SessionFrames))
    /\ (\E i \in 1..Len(ws_sent) : IsSubscribe(ws_sent[i])) => had_health
    /\ (ws_out # <<>> /\ ws_out # << "auth" >>) => had_health
    /\ \A frame \in { f \in ConnFrames : "payload" \in DOMAIN f } :
          IF frame.type = "success"
          THEN ~ENABLED (on_message(frame) /\ ~(had_health' /\ ws_out' = GroupFrames))
          ELSE ~ENABLED (on_message(frame) /\ SessionFrames' # SessionFrames)
    /\ ~ENABLED (on_open /\ ws_out' # << "auth" >>)

C22_ProtocolOrder == []ProtocolState /\ [][SendStep]_vars

\* a later session: after a session that ended without health and a
\* reconnect, the new session has sent its authentication and, on the
\* success, its subscriptions
C22_Witness ==
    /\ ws_pc = "run_forever"
    /\ backoff > BACKOFF_BASE
    /\ had_health
    /\ Len(ws_sent) = 5
    /\ IsSubscribe(ws_sent[2])

----------------------------------------------------------------------------
\* C23: every request the worker submits has size > 0 and side buy or
\* sell; when the worker dequeues a job without side it drops it: nothing
\* is submitted, the cap ledger is unchanged, and the worker is back at the
\* head of its loop with the rest of the queue; and the validation rejects
\* every job whose size is not positive.
SideUnknown(item) == item # NoJob /\ item[1].side \notin {"buy", "sell"}

DropsJob ==
    /\ worker_pc' = "loop"
    /\ sent' = <<>>
    /\ session_topup_used' = session_topup_used
    /\ order_q' = Tail(order_q)

NonPositiveJobs ==
    { [symbol |-> "BTCUSD", side |-> d, size |-> n, price |-> "100"] :
        d \in {"buy", "sell"}, n \in {-1, 0} }

C23_WorkerRevalidation ==
    /\ \A i \in 1..Len(sent) : sent[i].size > 0 /\ sent[i].side \in {"buy", "sell"}
    /\ (order_q # <<>> /\ SideUnknown(Head(order_q))) =>
          ~ENABLED (WorkerGet /\ ~DropsJob)
    /\ \A j \in NonPositiveJobs : ~JobValid(j)

\* the worker has dropped a job without side: it is back at the head of its
\* loop, nothing was submitted, the ledger is empty and the next job waits
C23_Witness ==
    /\ worker_pc = "loop"
    /\ job.side = ""
    /\ job.size = 3
    /\ sent = <<>>
    /\ session_topup_used = <<>>
    /\ order_q # <<>>
    /\ order_q[1] # NoJob

----------------------------------------------------------------------------
\* C24 as stated: neither dedup set holds more identifiers than its maximum,
\* and a frame whose fill identifier is already in seen_fill_ids (a
\* duplicate hit) leaves the identifier that counts as oldest, the next to
\* be evicted and to expire, the same.
FillIdOf(frame) == frame.payload.fill_id

DuplicateHit(frame) == CacheContains(seen_fill_ids, FillIdOf(frame))

WithinMaximum ==
    /\ Len(seen_fill_ids) <= FILL_ID_MAX
    /\ Len(seen_trade_ids) <= TRADE_ID_MAX

C24_DuplicateHitKeepsOldest ==
    /\ WithinMaximum
    /\ \A frame \in DedupFrames :
          (DuplicateHit(frame) /\ ~VERBOSE_DECISIONS) =>
              ~ENABLED (on_message(frame) /\ Head(seen_fill_ids') # Head(seen_fill_ids))
    /\ (ws_pc = "rewrite" /\ CacheContains(seen_fill_ids, log_next.fill_id)) =>
              ~ENABLED (RewriteSeen /\ Head(seen_fill_ids') # Head(seen_fill_ids))

\* C24, amended: neither dedup set holds more identifiers than its maximum
\* nor one identifier twice; a frame with a new fill identifier that finds
\* seen_fill_ids full evicts the identifier written least recently; and a
\* duplicate hit, which writes the identifier again, makes it the one
\* written most recently, the last to be evicted and to expire, the others
\* keeping their order.  The same holds for seen_trade_ids and the trade
\* identifier of a user_trades frame whose fill identifier is new.
NoRepeat(c) == \A i, k \in 1..Len(c) : c[i] = c[k] => i = k

Rewritten(c, k) == Append(DropKey(c, k), k)

\* the store c after the identifier k was written to it
Written(c, k, max) ==
    IF CacheContains(c, k) THEN Rewritten(c, k)
    ELSE IF Len(c) = max THEN Append(Tail(c), k)
    ELSE Append(c, k)

\* a duplicate is written again at once, or after the record of the skip
\* when decisions are logged
FillStoreStep(frame) ==
    LET f == FillIdOf(frame)
    IN IF DuplicateHit(frame) /\ VERBOSE_DECISIONS
       THEN seen_fill_ids' = seen_fill_ids /\ log_next'.fill_id = f
       ELSE seen_fill_ids' = Written(seen_fill_ids, f, FILL_ID_MAX)

TradeStoreStep(frame) ==
    LET t == frame.payload.id
    IN IF frame.type # "user_trades" \/ DuplicateHit(frame)
       THEN seen_trade_ids' = seen_trade_ids
       ELSE IF CacheContains(seen_trade_ids, t) /\ VERBOSE_DECISIONS
       THEN seen_trade_ids' = seen_trade_ids /\ log_next'.trade_id = t
       ELSE seen_trade_ids' = Written(seen_trade_ids, t, TRADE_ID_MAX)

\* the write that follows the record of a duplicate
LateStoreStep ==
    /\ seen_fill_ids' = IF log_next.fill_id = "" THEN seen_fill_ids
                        ELSE Written(seen_fill_ids, log_next.fill_id, FILL_ID_MAX)
    /\ seen_trade_ids' = IF log_next.trade_id = "" THEN seen_trade_ids
                         ELSE Written(seen_trade_ids, log_next.trade_id, TRADE_ID_MAX)

C24_DedupStoreOrder ==
    /\ WithinMaximum
    /\ NoRepeat(seen_fill_ids) /\ NoRepeat(seen_trade_ids)
    /\ \A frame \in DedupFrames :
          ~ENABLED (on_message(frame) /\ ~(FillStoreStep(frame) /\ TradeStoreStep(frame)))
    /\ ws_pc = "rewrite" => ~ENABLED (RewriteSeen /\ ~LateStoreStep)

\* both stores are full and the fill identifier written first has been
\* written again by a duplicate hit
C24_Witness ==
    /\ ws_pc = "run_forever"
    /\ seen_fill_ids = << "F2", "F1" >>
    /\ Len(seen_trade_ids) = TRADE_ID_MAX
    /\ log_last = "dup_fill_id"

----------------------------------------------------------------------------
\* C25: once the stop flag is set, a worker that is not waiting in
\* order_q.get() never waits there again, takes nothing off the queue and
\* starts no job; a worker that is waiting there takes at most one item
\* and then never waits there again; and a worker that is not executing a
\* job submits nothing.  Hence after the stop flag at most one more job
\* begins, and the jobs that stay on the queue are never submitted.
AfterStopStep ==
    STOP_EVENT =>
        /\ worker_pc # "get" =>
              /\ worker_pc' # "get"
              /\ Len(order_q') >= Len(order_q)
              /\ job' = job
        /\ (worker_pc = "get" /\ Len(order_q') < Len(order_q)) =>
              /\ order_q' = Tail(order_q)
              /\ worker_pc' # "get"
        /\ worker_pc \in {"loop", "done"} => sent' = sent
        /\ worker_pc = "get" => (sent' = sent \/ Len(sent') <= 1)
        /\ worker_pc = "done" => worker_pc' = "done"

C25_BoundedWorkAfterStop == [][AfterStopStep]_vars

\* the worker has finished after the stop flag; a job that was queued before
\* the sentinel is still on the queue
C25_Witness ==
    /\ STOP_EVENT
    /\ worker_pc = "done"
    /\ Len(order_q) = 2
    /\ order_q[1] # NoJob
    /\ order_q[2] = NoJob
    /\ sent # <<>>
    /\ status = 200

====
